---- MODULE Spec2Model ----
(***************************************************************************)
(* A model of ARver: the AccurateRip response decoder and lookup table     *)
(* (arver/disc/database.py), the disc fingerprint (arver/disc/             *)
(* fingerprint.py), the disc classification (arver/disc/info.py), the      *)
(* verification of a rip and its summary (arver/rip/rip.py), the           *)
(* detection of pressing offsets (arver/rip/offset.py), the loading of a   *)
(* rip and its checksums (arver/rip/rip.py, arver/checksum/checksum.py),   *)
(* the identity string of a disc (Header.__str__, accuraterip_id,          *)
(* from_id), the AccurateRip checksums of one file (arver/audio/           *)
(* checksums.py) and the TOC built from track lengths (arver/disc/info.py).*)
(*                                                                         *)
(* TLC's integers are 32-bit signed, so an unsigned 32-bit value is kept   *)
(* as its two 16-bit halves [hi, lo] (value = hi * 65536 + lo), and a      *)
(* Python integer of arbitrary size as the same pair with an unbounded,    *)
(* possibly negative, hi.                                                  *)
(***************************************************************************)
EXTENDS Integers, Sequences, FiniteSets, TLC

VARIABLES
    self,        \* the AccurateRipFetcher / AccurateRipParser instance fields
    raw_bytes,   \* self._raw_bytes: the bytes not yet parsed
    responses,   \* the local list `responses` of _parse_raw_bytes
    pc,          \* position of the decoder: "parse", "returned", "failed", "idle"
    exc,         \* the exception raised by _parse_raw_bytes, or "none"
    returned,    \* what fetch() / parse() returned: a disc, None, or NotYet
    table,       \* what make_dict() gave on the returned disc
    summary,     \* what summary() gave on the returned disc
    input,       \* the synthetic disc encoded into the buffer and the bytes cut
    audio_offsets, \* accuraterip_ids: the LBA offsets of the audio tracks
    leadout,     \* accuraterip_ids: the LBA offset of the lead out
    track_num,   \* accuraterip_ids: the loop's track number (from 1)
    id1,         \* accuraterip_ids: the running sum id1
    id2,         \* accuraterip_ids: the running sum id2
    ids,         \* accuraterip_ids: the pair of strings returned
    fp_pc,       \* accuraterip_ids: "loop", "done" or "idle"
    cd,          \* from_cd: what the drive reports (disc present, sessions, TOC)
    disc_type,   \* from_cd: the local disc_type
    disc_info,   \* from_cd: the DiscInfo returned, or None
    cd_pc,       \* from_cd: "call", "done" or "idle"
    vdisc,       \* verify: the argument disc_info
    rip,         \* verify: self.tracks, the AudioFiles of the Rip
    permissive,  \* verify: the argument permissive
    checksums,   \* verify: the local checksums (the lookup table)
    results,     \* verify: the local list results
    calls,       \* verify: the calls of get_checksums made so far
    lookups,     \* verify: the indices checksums[...] was read at so far
    messages,    \* verify: what _sanity_check printed
    v_exc,       \* verify: the exception raised, or "none"
    v_pc,        \* verify: "sanity", "table", "loop", "returned", "raised", "idle"
    dvr_tracks,  \* DiscVerificationResult.tracks
    verdict,     \* what DiscVerificationResult.summary() returned
    s_pc,        \* summary: "call", "done" or "idle"
    o_disc,      \* find_pressing_offset: the argument disc
    o_rip,       \* find_pressing_offset: rip.tracks, each with its frame 450 list
    o_table,     \* find_pressing_offset: disc_frame450_checksums
    o_num,       \* find_pressing_offset: the number of rip tracks gone through
    o_results,   \* find_pressing_offset: the OrderedDict results
    o_output,    \* find_pressing_offset: the rows _print_offsets printed
    o_exc,       \* find_pressing_offset: the exception raised, or "none"
    o_pc,        \* find_pressing_offset: "call", "loop", "printed", "raised", "idle"
    l_paths,     \* Rip: the argument paths of the constructor
    l_exclude,   \* Rip: the argument exclude of the constructor (None or patterns)
    l_tracks,    \* Rip: self.tracks, each AudioFile with its cached checksums
    l_have_checksums, \* Rip: self._have_checksums
    l_computed,  \* Rip: the calls of the checksum extension made so far
    l_reported,  \* Rip: the checksums the last call printed or returned
    l_ncalls,    \* Rip: the number of calls made after the constructor
    l_pc,        \* Rip: "new", "ready" or "idle"
    h_header,    \* the identity string: the Header whose string is made
    h_str,       \* the identity string: str(header)
    h_id,        \* the identity string: what accuraterip_id() returned
    h_fetcher,   \* the identity string: the fetcher from_id() made
    h_pc,        \* the identity string: "call", "str", "id", "done" or "idle"
    k_track,     \* checksums: the audio of the file (its length and content)
    k_no,        \* checksums: the argument track_no
    k_total,     \* checksums: the argument total_tracks
    k_i,         \* checksums: the number of frames gone through
    k_v1,        \* checksums: the running AccurateRip v1 sum
    k_v2,        \* checksums: the running AccurateRip v2 sum
    k_crc,       \* checksums: the running CRC-32
    k_pc,        \* checksums: "loop", "done" or "idle"
    t_args,      \* from_track_lengths: the arguments tracks, pregap and data
    t_disc,      \* from_track_lengths: the DiscInfo returned
    t_pc         \* from_track_lengths: "call", "done", "raised" or "idle"

\* the decoder and the lookup table
dvars == <<self, raw_bytes, responses, pc, exc, returned, table, summary, input>>
\* the fingerprint
fvars == <<audio_offsets, leadout, track_num, id1, id2, ids, fp_pc>>
\* the disc classification
cvars == <<cd, disc_type, disc_info, cd_pc>>

\* Rip.verify
rvars == <<vdisc, rip, permissive, checksums, results, calls, lookups, messages,
           v_exc, v_pc>>
\* DiscVerificationResult.summary
svars == <<dvr_tracks, verdict, s_pc>>
\* find_pressing_offset
ovars == <<o_disc, o_rip, o_table, o_num, o_results, o_output, o_exc, o_pc>>

\* the Rip object: loading of the files and the cache of their checksums
lvars == <<l_paths, l_exclude, l_tracks, l_have_checksums, l_computed,
           l_reported, l_ncalls, l_pc>>

\* the strings of a disc identity
hvars == <<h_header, h_str, h_id, h_fetcher, h_pc>>

\* the checksums of one audio file
kvars == <<k_track, k_no, k_total, k_i, k_v1, k_v2, k_crc, k_pc>>
\* DiscInfo.from_track_lengths
tvars == <<t_args, t_disc, t_pc>>

\* the sections added to the first six
xvars == <<lvars, hvars, kvars, tvars>>

vars == <<dvars, fvars, cvars, rvars, svars, ovars, xvars>>

---------------------------------------------------------------------------
(* Bounds of the model.                                                    *)
MaxResponses == 2
MaxTracks == 2
MaxCut == 9

---------------------------------------------------------------------------
(* Unsigned 32-bit values and their text form.                             *)
Half == 65536

U32(hi, lo) == [hi |-> hi, lo |-> lo]

HexDigits == <<"0", "1", "2", "3", "4", "5", "6", "7",
               "8", "9", "a", "b", "c", "d", "e", "f">>

\* f'{v:04x}' of a 16-bit value
Hex4(v) ==
    HexDigits[(v \div 4096) + 1] \o HexDigits[((v \div 256) % 16) + 1]
        \o HexDigits[((v \div 16) % 16) + 1] \o HexDigits[(v % 16) + 1]

\* f'{x:08x}' of an unsigned 32-bit value
Hex8(x) == Hex4(x.hi) \o Hex4(x.lo)

---------------------------------------------------------------------------
(* The wire format: struct.unpack('<BLLL') and struct.unpack('<BLL').      *)
Header_size == 13
Track_size == 9

StructError == [err |-> "struct.error"]
IsErr(r) == "err" \in DOMAIN r

\* the mutant of Shift: one byte less is discarded
Shift_OneLess(data, n) == SubSeq(data, n, Len(data))

\* data[n:]
Shift(data, n) == SubSeq(data, n + 1, Len(data))

\* data[:n]
Prefix(data, n) == SubSeq(data, 1, IF n < Len(data) THEN n ELSE Len(data))

\* the mutant of LE32: the four bytes read as big endian
LE32_BigEndian(data, i) ==
    U32(data[i + 1] + 256 * data[i], data[i + 3] + 256 * data[i + 2])

\* a little-endian unsigned long ('<L') at data[i .. i+3] (1-based)
LE32(data, i) ==
    U32(data[i + 2] + 256 * data[i + 3], data[i] + 256 * data[i + 1])

\* Header.from_bytes: data[:13] unpacked as '<BLLL'
Header_from_bytes(data) ==
    LET header_bytes == Prefix(data, Header_size) IN
    IF Len(header_bytes) # Header_size THEN StructError
    ELSE [num_tracks |-> header_bytes[1],
          ar_id1 |-> LE32(header_bytes, 2),
          ar_id2 |-> LE32(header_bytes, 6),
          freedb_id |-> LE32(header_bytes, 10)]

\* the mutant of Track_from_bytes: a short record is read as if its missing
\* bytes were zero, and only an empty one is refused
Track_from_bytes_Padded(data) ==
    LET got == Prefix(data, Track_size)
        track_bytes == got \o [i \in 1..(Track_size - Len(got)) |-> 0]
    IN  IF Len(got) = 0 THEN StructError
        ELSE [confidence |-> track_bytes[1],
              checksum |-> LE32(track_bytes, 2),
              checksum_450 |-> LE32(track_bytes, 6)]

\* Track.from_bytes: data[:9] unpacked as '<BLL'
Track_from_bytes(data) ==
    LET track_bytes == Prefix(data, Track_size) IN
    IF Len(track_bytes) # Track_size THEN StructError
    ELSE [confidence |-> track_bytes[1],
          checksum |-> LE32(track_bytes, 2),
          checksum_450 |-> LE32(track_bytes, 6)]

---------------------------------------------------------------------------
(* AccurateRipFetcher and AccurateRipParser.                               *)
None == [tag |-> "None"]
NotYet == [tag |-> "NotYet"]

\* AccurateRipFetcher.__init__: the IDs are kept as the strings given
AccurateRipFetcher(num_tracks, ar_id1, ar_id2, freedb_id) ==
    [class |-> "AccurateRipFetcher", num_tracks |-> num_tracks,
     ar_id1 |-> ar_id1, ar_id2 |-> ar_id2, freedb_id |-> freedb_id]

\* AccurateRipParser.__init__: the parent's fields get dummy values
AccurateRipParser ==
    [class |-> "AccurateRipParser", num_tracks |-> 0,
     ar_id1 |-> "00000000", ar_id2 |-> "00000000", freedb_id |-> "00000000"]

\* the mutant of HeaderMismatch: the FreeDB ID is not compared
HeaderMismatch_NoFreedb(s, header) ==
    \/ header.num_tracks # s.num_tracks
    \/ Hex8(header.ar_id1) # s.ar_id1
    \/ Hex8(header.ar_id2) # s.ar_id2

\* the condition under which AccurateRipFetcher._validate_header raises
HeaderMismatch(s, header) ==
    \/ header.num_tracks # s.num_tracks
    \/ Hex8(header.ar_id1) # s.ar_id1
    \/ Hex8(header.ar_id2) # s.ar_id2
    \/ Hex8(header.freedb_id) # s.freedb_id

\* _validate_header: TRUE when the call returns, FALSE when it raises
\* ValueError; AccurateRipParser overrides it with a method that does nothing
_validate_header(s, header) ==
    IF s.class = "AccurateRipParser" THEN TRUE ELSE ~HeaderMismatch(s, header)

RECURSIVE ParseTracks(_, _, _)
\* the for loop of _parse_raw_bytes: n tracks still to read from data
ParseTracks(data, n, tracks) ==
    IF n = 0 THEN [tracks |-> tracks, rest |-> data]
    ELSE LET track == Track_from_bytes(data) IN
         IF IsErr(track) THEN [err |-> "struct.error", rest |-> data]
         ELSE ParseTracks(Shift(data, Track_size), n - 1, Append(tracks, track))

\* an exception leaves _parse_raw_bytes; fetch() and parse() catch
\* struct.error and ValueError and return None
Raise(e, rest) ==
    /\ raw_bytes' = rest
    /\ exc' = e
    /\ pc' = "failed"
    /\ returned' = None
    /\ UNCHANGED responses

\* one iteration of the while loop of _parse_raw_bytes
ParseResponse ==
    /\ pc = "parse"
    /\ Len(raw_bytes) > 0
    /\ LET header == Header_from_bytes(raw_bytes) IN
       IF IsErr(header) THEN Raise("struct.error", raw_bytes)
       ELSE IF ~_validate_header(self, header) THEN Raise("ValueError", raw_bytes)
       ELSE LET body == ParseTracks(Shift(raw_bytes, Header_size),
                                    header.num_tracks, << >>) IN
            IF IsErr(body) THEN Raise("struct.error", body.rest)
            ELSE /\ raw_bytes' = body.rest
                 /\ responses' = Append(responses,
                                        [header |-> header, tracks |-> body.tracks])
                 /\ UNCHANGED <<pc, exc, returned>>
    /\ UNCHANGED <<self, table, summary, input>>
    /\ UNCHANGED <<fvars, cvars, rvars, svars, ovars, xvars>>

\* the while loop ends: return AccurateRipDisc(responses)
ReturnDisc ==
    /\ pc = "parse"
    /\ Len(raw_bytes) = 0
    /\ returned' = [responses |-> responses]
    /\ pc' = "returned"
    /\ UNCHANGED <<self, raw_bytes, responses, exc, table, summary, input>>
    /\ UNCHANGED <<fvars, cvars, rvars, svars, ovars, xvars>>

---------------------------------------------------------------------------
(* AccurateRipDisc.                                                        *)
EmptyDict == [x \in {} |-> 0]

\* d[k] = v of a Python dict
DictPut(d, k, v) == [x \in (DOMAIN d) \cup {k} |-> IF x = k THEN v ELSE d[x]]

RECURSIVE TrackDict_KeepZero(_, _, _, _)
\* the mutant of TrackDict: checksums of confidence 0 are kept
TrackDict_KeepZero(disc, trk, rsp, d) ==
    IF rsp = Len(disc.responses) THEN [dict |-> d]
    ELSE LET tracks == disc.responses[rsp + 1].tracks IN
         IF trk + 1 > Len(tracks) THEN [err |-> "IndexError"]
         ELSE LET track == tracks[trk + 1] IN
              TrackDict_KeepZero(disc, trk, rsp + 1,
                        DictPut(d, track.checksum,
                                [confidence |-> track.confidence,
                                 response |-> rsp + 1]))

RECURSIVE TrackDict(_, _, _, _)
\* the inner loop of make_dict for track trk, from response rsp on (0-based)
TrackDict(disc, trk, rsp, d) ==
    IF rsp = Len(disc.responses) THEN [dict |-> d]
    ELSE LET tracks == disc.responses[rsp + 1].tracks IN
         IF trk + 1 > Len(tracks) THEN [err |-> "IndexError"]
         ELSE LET track == tracks[trk + 1] IN
              TrackDict(disc, trk, rsp + 1,
                        IF track.confidence # 0
                        THEN DictPut(d, track.checksum,
                                     [confidence |-> track.confidence,
                                      response |-> rsp + 1])
                        ELSE d)

RECURSIVE TracksLoop(_, _, _, _)
\* the outer loop of make_dict, from track trk on (0-based)
TracksLoop(disc, num_tracks, trk, data) ==
    IF trk = num_tracks THEN [data |-> data]
    ELSE LET inner == TrackDict(disc, trk, 0, EmptyDict) IN
         IF IsErr(inner) THEN inner
         ELSE TracksLoop(disc, num_tracks, trk + 1,
                         DictPut(data, trk + 1, inner.dict))

\* the mutant of make_dict: the "N+1" track is left out
make_dict_NoExtraTrack(disc) ==
    IF Len(disc.responses) = 0 THEN [err |-> "IndexError"]
    ELSE LET num_tracks == disc.responses[1].header.num_tracks
             loop == TracksLoop(disc, num_tracks, 0, EmptyDict)
         IN  IF IsErr(loop) THEN loop
             ELSE IF num_tracks = 0 THEN [err |-> "UnboundLocalError"]
             ELSE [data |-> loop.data]

\* make_dict: the lookup table [data |-> ...], or the exception it raises.
\* `index` is bound by the loop only, so it is unbound after zero iterations.
make_dict(disc) ==
    IF Len(disc.responses) = 0 THEN [err |-> "IndexError"]
    ELSE LET num_tracks == disc.responses[1].header.num_tracks
             loop == TracksLoop(disc, num_tracks, 0, EmptyDict)
         IN  IF IsErr(loop) THEN loop
             ELSE IF num_tracks = 0 THEN [err |-> "UnboundLocalError"]
             ELSE [data |-> DictPut(loop.data, num_tracks + 1, EmptyDict)]

\* the generator of _max_confidence: every track.confidence of the disc
Confidences(disc) ==
    UNION {{disc.responses[r].tracks[t].confidence :
                t \in 1..Len(disc.responses[r].tracks)} :
           r \in 1..Len(disc.responses)}

\* _max_confidence: max() of an empty sequence raises ValueError
_max_confidence(disc) ==
    LET cs == Confidences(disc) IN
    IF cs = {} THEN [err |-> "ValueError"]
    ELSE [value |-> CHOOSE m \in cs : \A c \in cs : c <= m]

\* summary(): the number of responses and the maximum confidence
summary_of(disc) ==
    LET mc == _max_confidence(disc) IN
    IF IsErr(mc) THEN mc
    ELSE [num |-> Len(disc.responses), max_confidence |-> mc.value]

\* a caller takes the lookup table of the disc it was given
MakeDict ==
    /\ pc = "returned"
    /\ table = NotYet
    /\ table' = make_dict(returned)
    /\ UNCHANGED <<self, raw_bytes, responses, pc, exc, returned, summary, input>>
    /\ UNCHANGED <<fvars, cvars, rvars, svars, ovars, xvars>>

\* a caller prints the summary of the disc it was given
Summary ==
    /\ pc = "returned"
    /\ summary = NotYet
    /\ summary' = summary_of(returned)
    /\ UNCHANGED <<self, raw_bytes, responses, pc, exc, returned, table, input>>
    /\ UNCHANGED <<fvars, cvars, rvars, svars, ovars, xvars>>

---------------------------------------------------------------------------
(* The buffers decoded: a synthetic disc written in the wire format, with  *)
(* some of its last bytes cut off.                                         *)

\* an unsigned long as four bytes, least significant first
EncodeU32(x) == <<x.lo % 256, x.lo \div 256, x.hi % 256, x.hi \div 256>>

EncodeHeader(h) ==
    <<h.num_tracks>> \o EncodeU32(h.ar_id1) \o EncodeU32(h.ar_id2)
        \o EncodeU32(h.freedb_id)

EncodeTrack(t) ==
    <<t.confidence>> \o EncodeU32(t.checksum) \o EncodeU32(t.checksum_450)

RECURSIVE EncodeTracks(_)
EncodeTracks(ts) ==
    IF ts = << >> THEN << >> ELSE EncodeTrack(Head(ts)) \o EncodeTracks(Tail(ts))

RECURSIVE EncodeDisc(_)
\* the Responses one after the other, with no delimiter
EncodeDisc(rs) ==
    IF rs = << >> THEN << >>
    ELSE EncodeHeader(Head(rs).header) \o EncodeTracks(Head(rs).tracks)
             \o EncodeDisc(Tail(rs))

\* the IDs of the disc looked up, and for each an ID that differs in one byte
IdA == U32(4, 16893)        \* 000441fd
IdB == U32(8, 33787)        \* 000883fb
IdC == U32(526, 34817)      \* 020e8801
IdA2 == U32(4, 16892)       \* 000441fc
IdB2 == U32(264, 33787)     \* 010883fb
IdC2 == U32(526, 35073)     \* 020e8901

Hdr(n, a, b, c) == [num_tracks |-> n, ar_id1 |-> a, ar_id2 |-> b, freedb_id |-> c]

\* the checksums a database track may carry
SumA == U32(43981, 4660)    \* abcd1234
SumB == U32(1, 65535)       \* 0001ffff

\* what the tracks of one Response carry: its confidence and checksum
TrackSamples ==
    {[confidence |-> 2, checksum |-> SumA], [confidence |-> 1, checksum |-> SumA],
     [confidence |-> 0, checksum |-> SumA], [confidence |-> 3, checksum |-> SumB]}

\* track j of a Response carrying s; the frame 450 checksum tells the tracks apart
SampleTrack(s, j) ==
    [confidence |-> s.confidence, checksum |-> s.checksum,
     checksum_450 |-> U32(j, 256 * j + s.confidence)]

Resp(h, s) ==
    [header |-> h, tracks |-> [j \in 1..h.num_tracks |-> SampleTrack(s, j)]]

\* the Responses of the disc looked up, with any number of tracks, and those
\* of discs that differ from it in one ID
SrcResponses(ne) ==
    {Resp(Hdr(n, IdA, IdB, IdC), s) : n \in 0..MaxTracks, s \in TrackSamples}
    \cup {Resp(h, CHOOSE s \in TrackSamples : s.confidence = 3) :
            h \in {Hdr(ne, IdA2, IdB, IdC), Hdr(ne, IdA, IdB2, IdC),
                   Hdr(ne, IdA, IdB, IdC2)}}

SeqsUpTo(S, n) == UNION {[1..k -> S] : k \in 0..n}

\* the buffer is the encoded disc without its last `cut` bytes
Buffer(disc, cut) ==
    LET bytes == EncodeDisc(disc) IN SubSeq(bytes, 1, Len(bytes) - cut)

\* every Response of the disc has the header h
Uniform(disc, h) == \A i \in 1..Len(disc) : disc[i].header = h

InitDecoder(s, ne) ==
    \E disc \in SeqsUpTo(SrcResponses(ne), MaxResponses) :
    \E cut \in 0..MaxCut :
        /\ cut <= Len(EncodeDisc(disc))
        /\ cut > 0 => Uniform(disc, Hdr(ne, IdA, IdB, IdC))
        /\ self = s
        /\ raw_bytes = Buffer(disc, cut)
        /\ input = [disc |-> disc, cut |-> cut]
        /\ responses = << >>
        /\ pc = "parse"
        /\ exc = "none"
        /\ returned = NotYet
        /\ table = NotYet
        /\ summary = NotYet

\* no decoder is at work
DecoderIdle ==
    /\ self = AccurateRipParser
    /\ raw_bytes = << >>
    /\ input = [disc |-> << >>, cut |-> 0]
    /\ responses = << >>
    /\ pc = "idle"
    /\ exc = "none"
    /\ returned = NotYet
    /\ table = NotYet
    /\ summary = NotYet

\* accuraterip_ids is not being called
FingerprintIdle ==
    /\ audio_offsets = << >>
    /\ leadout = 0
    /\ track_num = 0
    /\ id1 = 0
    /\ id2 = 0
    /\ ids = NotYet
    /\ fp_pc = "idle"

\* from_cd is not being called
ClassifierIdle ==
    /\ cd = None
    /\ disc_type = NotYet
    /\ disc_info = NotYet
    /\ cd_pc = "idle"

\* verify is not being called
VerifierIdle ==
    /\ vdisc = None
    /\ rip = << >>
    /\ permissive = FALSE
    /\ checksums = NotYet
    /\ results = << >>
    /\ calls = << >>
    /\ lookups = << >>
    /\ messages = << >>
    /\ v_exc = "none"
    /\ v_pc = "idle"

\* summary() is not being called
VerdictIdle ==
    /\ dvr_tracks = << >>
    /\ verdict = NotYet
    /\ s_pc = "idle"

\* find_pressing_offset is not being called
OffsetIdle ==
    /\ o_disc = None
    /\ o_rip = << >>
    /\ o_table = NotYet
    /\ o_num = 0
    /\ o_results = << >>
    /\ o_output = NotYet
    /\ o_exc = "none"
    /\ o_pc = "idle"

\* no Rip object is being made or used
LoadIdle ==
    /\ l_paths = << >>
    /\ l_exclude = None
    /\ l_tracks = << >>
    /\ l_have_checksums = FALSE
    /\ l_computed = << >>
    /\ l_reported = << >>
    /\ l_ncalls = 0
    /\ l_pc = "idle"

\* no identity string is being made or parsed
HeaderIdle ==
    /\ h_header = None
    /\ h_str = NotYet
    /\ h_id = NotYet
    /\ h_fetcher = NotYet
    /\ h_pc = "idle"

\* no checksum is being computed
ChecksumIdle ==
    /\ k_track = None
    /\ k_no = 0
    /\ k_total = 0
    /\ k_i = 0
    /\ k_v1 = NotYet
    /\ k_v2 = NotYet
    /\ k_crc = NotYet
    /\ k_pc = "idle"

\* from_track_lengths is not being called
TocIdle ==
    /\ t_args = None
    /\ t_disc = NotYet
    /\ t_pc = "idle"

\* the sections added to the first six are idle
XIdle == LoadIdle /\ HeaderIdle /\ ChecksumIdle /\ TocIdle

\* nothing but the decoder, the fingerprint and the classification is at work
RipIdle == VerifierIdle /\ VerdictIdle /\ OffsetIdle /\ XIdle

\* a fetcher made for the disc (ne, IdA, IdB, IdC), or a parser of a cached file
Init ==
    /\ \E ne \in 0..MaxTracks :
          \/ InitDecoder(AccurateRipFetcher(ne, Hex8(IdA), Hex8(IdB), Hex8(IdC)), ne)
          \/ InitDecoder(AccurateRipParser, ne)
    /\ FingerprintIdle
    /\ ClassifierIdle
    /\ RipIdle

Next ==
    \/ ParseResponse
    \/ ReturnDisc
    \/ MakeDict
    \/ Summary

Spec == Init /\ [][Next]_vars

---------------------------------------------------------------------------
(* Claims about the decoder and the lookup table.                          *)

IsDisc(r) == "responses" \in DOMAIN r

\* the identity the fetcher was made for, as a Header
Wanted == Hdr(self.num_tracks, IdA, IdB, IdC)

IsFetcher == self.class = "AccurateRipFetcher"

\* C1: when the Header of some Response of the buffer, the first or a later
\* one, differs from the fetcher's identity in any field, decoding ends with
\* ValueError and fetch() returns None: no disc is returned, whatever was
\* parsed before.
C1_HeaderMismatchFails ==
    (IsFetcher /\ \E i \in 1..Len(input.disc) : input.disc[i].header # Wanted)
        => /\ ~IsDisc(returned)
           /\ pc # "parse" => (pc = "failed" /\ exc = "ValueError" /\ returned = None)

\* C1 witness: a later Header mismatched after a Response had been parsed
C1_Witness ==
    /\ IsFetcher
    /\ pc = "failed"
    /\ exc = "ValueError"
    /\ Len(responses) >= 1
    /\ returned = None

\* the byte counts at which a record (Header or Track) of the encoded disc ends
RecordEnds(disc) ==
    {Len(EncodeDisc(SubSeq(disc, 1, i - 1))) + Header_size + Track_size * t :
        i \in 1..Len(disc), t \in 0..MaxTracks} \cup {0}

BufferLen == Len(EncodeDisc(input.disc)) - input.cut

\* C2: a well-formed buffer of one or more Responses without its last k
\* bytes, 1 <= k <= 8, ends decoding with struct.error and no disc; and no
\* buffer that ends inside a Header or a Track record is decoded into a disc.
C2_TruncatedFails ==
    /\ (Len(input.disc) >= 1 /\ input.cut \in 1..(Track_size - 1))
          => /\ ~IsDisc(returned)
             /\ pc # "parse" =>
                    (pc = "failed" /\ exc = "struct.error" /\ returned = None)
    /\ BufferLen \notin RecordEnds(input.disc) => ~IsDisc(returned)

\* C2 witness: a buffer of two Responses cut by 8 bytes has failed in its
\* second Response
C2_Witness ==
    /\ input.cut = Track_size - 1
    /\ Len(input.disc) = 2
    /\ Len(responses) = 1
    /\ pc = "failed"
    /\ exc = "struct.error"

\* the decoder accepts the headers of the encoded disc
Accepted == IF IsFetcher THEN Uniform(input.disc, Wanted) ELSE TRUE

\* C3: a disc of one or more Responses with identical Headers, encoded and
\* decoded, comes back as the same Responses in the same order, with the same
\* Header fields and the same (confidence, checksum, checksum450) per track.
C3_RoundTrip ==
    (/\ Len(input.disc) >= 1
     /\ input.cut = 0
     /\ Uniform(input.disc, input.disc[1].header)
     /\ Accepted)
        => /\ pc # "failed"
           /\ pc # "parse" => returned = [responses |-> input.disc]

\* C3 witness: two Responses of two tracks each came back
C3_Witness ==
    /\ IsDisc(returned)
    /\ Len(returned.responses) = 2
    /\ Len(returned.responses[2].tracks) = 2
    /\ returned.responses[1].tracks # returned.responses[2].tracks
    /\ Uniform(input.disc, input.disc[1].header)

\* the Headers of the returned disc are identical
HeadersIdentical(disc) ==
    \A i, j \in 1..Len(disc.responses) :
        disc.responses[i].header = disc.responses[j].header

\* C4: make_dict() of a decoded disc is a table with exactly the keys
\* 1..trackCount+1, whose entry trackCount+1 is empty and which stores no
\* confidence 0, for every trackCount a Header can carry. Stated for the discs
\* that have a Response and identical Headers.
C4_LookupTableShape ==
    (/\ table # NotYet
     /\ Len(returned.responses) >= 1
     /\ HeadersIdentical(returned))
        => /\ ~IsErr(table)
           /\ LET n == returned.responses[1].header.num_tracks IN
              /\ DOMAIN table.data = 1..(n + 1)
              /\ table.data[n + 1] = EmptyDict
              /\ \A t \in 1..n : \A c \in DOMAIN table.data[t] :
                    table.data[t][c].confidence # 0

\* the Responses that record checksum c with a confidence other than 0 at track t
Recorders(disc, t, c) ==
    {r \in 1..Len(disc.responses) :
        /\ t <= Len(disc.responses[r].tracks)
        /\ disc.responses[r].tracks[t].checksum = c
        /\ disc.responses[r].tracks[t].confidence # 0}

Last(S) == CHOOSE m \in S : \A x \in S : x <= m

\* C5: the table has an entry [t][c] exactly when some Response records c at
\* track t with a confidence other than 0, and the entry holds the confidence
\* and the ordinal of the last such Response.
C5_EntryOfLastRecorder ==
    (table # NotYet /\ ~IsErr(table)) =>
        \A t \in 1..(MaxTracks + 1) : \A c \in {SumA, SumB} :
            LET rs == Recorders(returned, t, c) IN
            /\ (t \in DOMAIN table.data /\ c \in DOMAIN table.data[t]) <=> rs # {}
            /\ rs # {} =>
                  table.data[t][c] =
                      [confidence |->
                           returned.responses[Last(rs)].tracks[t].confidence,
                       response |-> Last(rs)]

\* C6: all Headers of a returned disc are identical, from a fetcher and from
\* the parser of cached files alike.
C6_HeadersIdentical == IsDisc(returned) => HeadersIdentical(returned)

\* C7: a returned disc has at least one Response.
C7_AtLeastOneResponse == IsDisc(returned) => Len(returned.responses) >= 1

---------------------------------------------------------------------------
(* arver/disc/fingerprint.py: accuraterip_ids. A Python integer x is the   *)
(* pair [hi, lo] with x = hi * 65536 + lo and 0 <= lo < 65536.             *)
LEAD_IN_FRAMES == 150

\* the pair of a number TLC can hold
PyInt(x) == [hi |-> x \div Half, lo |-> x % Half]

\* a + b
Add(a, b) ==
    LET lo == a.lo + b.lo IN [hi |-> a.hi + b.hi + (lo \div Half), lo |-> lo % Half]

\* a * k, for a small natural number k
Mul(a, k) ==
    LET lo == a.lo * k IN [hi |-> a.hi * k + (lo \div Half), lo |-> lo % Half]

\* a & 0xffffffff
Mask32(a) == [hi |-> a.hi % Half, lo |-> a.lo]

\* the mutant of OrOne: the `or 1` is left out
OrOne_Missing(a) == a

\* (offset or 1): zero is falsy
OrOne(a) == IF a = PyInt(0) THEN PyInt(1) ELSE a

\* lsn_offsets = [offset - LEAD_IN_FRAMES for offset in audio_offsets]
lsn_offsets == [i \in 1..Len(audio_offsets) |-> PyInt(audio_offsets[i] - LEAD_IN_FRAMES)]

\* lsn_leadout = leadout - LEAD_IN_FRAMES
lsn_leadout == PyInt(leadout - LEAD_IN_FRAMES)

\* one iteration of `for track_num, offset in enumerate(lsn_offsets, start=1)`
IdsStep ==
    /\ fp_pc = "loop"
    /\ track_num <= Len(audio_offsets)
    /\ LET offset == lsn_offsets[track_num] IN
       /\ id1' = Add(id1, offset)
       /\ id2' = Add(id2, Mul(OrOne(offset), track_num))
    /\ track_num' = track_num + 1
    /\ UNCHANGED <<audio_offsets, leadout, ids, fp_pc>>
    /\ UNCHANGED <<dvars, cvars, rvars, svars, ovars, xvars>>

\* after the loop: the lead out is added, both sums are masked and formatted
IdsReturn ==
    /\ fp_pc = "loop"
    /\ track_num > Len(audio_offsets)
    /\ LET sum1 == Add(id1, lsn_leadout)
           sum2 == Add(id2, Mul(lsn_leadout, Len(audio_offsets) + 1))
       IN  /\ id1' = Mask32(sum1)
           /\ id2' = Mask32(sum2)
           /\ ids' = [id1 |-> Hex8(Mask32(sum1)), id2 |-> Hex8(Mask32(sum2))]
    /\ fp_pc' = "done"
    /\ UNCHANGED <<audio_offsets, leadout, track_num>>
    /\ UNCHANGED <<dvars, cvars, rvars, svars, ovars, xvars>>

\* bounds of the offset lists
MaxOffsets == 3

\* LBA offsets: before the lead in, at it (LSN 0), after it, and one so large
\* that the sums pass 2^32
OffsetSamples == {0, LEAD_IN_FRAMES, 183, 75408, 2147483647}

\* lead outs: at the lead in (LSN 0, so that sums may be negative), the
\* single-track disc of the tests, and one so large that the sums pass 2^32
LeadoutSamples == {LEAD_IN_FRAMES, LEAD_IN_FRAMES + 279037, 2147483647}

InitIds ==
    /\ audio_offsets \in SeqsUpTo(OffsetSamples, MaxOffsets)
    /\ leadout \in LeadoutSamples
    /\ track_num = 1
    /\ id1 = PyInt(0)
    /\ id2 = PyInt(0)
    /\ ids = NotYet
    /\ fp_pc = "loop"
    /\ DecoderIdle
    /\ ClassifierIdle
    /\ RipIdle

NextIds ==
    \/ IdsStep
    \/ IdsReturn

SpecIds == InitIds /\ [][NextIds]_vars

---------------------------------------------------------------------------
(* Claims about the fingerprint.                                           *)

RECURSIVE SumOver(_, _)
\* term(1) + ... + term(n), as a Python integer
SumOver(term(_), n) == IF n = 0 THEN PyInt(0) ELSE Add(SumOver(term, n - 1), term(n))

\* the sum the claim gives for id1
ClaimedId1 ==
    LET term(i) == PyInt(audio_offsets[i] - 150) IN
    Mask32(Add(SumOver(term, Len(audio_offsets)), PyInt(leadout - 150)))

\* the sum the claim gives for id2
ClaimedId2 ==
    LET n == Len(audio_offsets)
        term(i) == IF audio_offsets[i] - 150 = 0 THEN PyInt(i)
                   ELSE Mul(PyInt(audio_offsets[i] - 150), i)
    IN  Mask32(Add(SumOver(term, n), Mul(PyInt(leadout - 150), n + 1)))

RECURSIVE PlainSum(_, _)
PlainSum(term(_), n) == IF n = 0 THEN 0 ELSE PlainSum(term, n - 1) + term(n)

\* offsets up to this one keep both sums of the model's lists within 31 bits
MaxPlainOffset == 400000

AllPlain ==
    /\ leadout <= MaxPlainOffset
    /\ \A i \in 1..Len(audio_offsets) : audio_offsets[i] <= MaxPlainOffset

\* C8: id1 = (sum of (offset_i - 150) + (leadout - 150)) mod 2^32 and
\* id2 = (sum of ((offset_i - 150) or 1) * i + (leadout - 150) * (n + 1)) mod 2^32,
\* each as 8 lowercase hex digits; offsets [150] with a track of 279037 frames
\* give ('000441fd', '000883fb').
C8_AccurateRipIds ==
    fp_pc = "done" =>
        /\ ids = [id1 |-> Hex8(ClaimedId1), id2 |-> Hex8(ClaimedId2)]
        /\ AllPlain =>
              LET n == Len(audio_offsets)
                  t1(i) == audio_offsets[i] - 150
                  t2(i) == (IF t1(i) = 0 THEN 1 ELSE t1(i)) * i
              IN  /\ ids.id1 = Hex8(Mask32(PyInt(PlainSum(t1, n) + (leadout - 150))))
                  /\ ids.id2 = Hex8(Mask32(PyInt(PlainSum(t2, n)
                                                + (leadout - 150) * (n + 1))))
        /\ (audio_offsets = <<150>> /\ leadout = 150 + 279037)
              => ids = [id1 |-> "000441fd", id2 |-> "000883fb"]

\* C8 witness: the IDs of the single-track disc of the tests were returned
C8_Witness ==
    /\ fp_pc = "done"
    /\ audio_offsets = <<150>>
    /\ leadout = 150 + 279037
    /\ ids = [id1 |-> "000441fd", id2 |-> "000883fb"]

\* C9: computing the IDs from an empty offset list is an error and never
\* returns a pair of IDs.
C9_EmptyOffsetsIsError ==
    (fp_pc = "done" /\ audio_offsets = << >>) => IsErr(ids)

---------------------------------------------------------------------------
(* arver/disc/info.py: the disc classification and DiscInfo.from_cd.       *)
PREGAP_TRACK_NUM == -1
ENHANCED_CD_DATA_TRACK_GAP == 11400

\* _Track
Track(num, lba, frames, type) ==
    [num |-> num, lba |-> lba, frames |-> frames, type |-> type]

\* the mutant of _is_audio_only: the test that there is one type only is left out
_is_audio_only_AnyAudio(track_list) ==
    LET types == {track_list[i].type : i \in 1..Len(track_list)} IN
    "audio" \in types

\* _is_audio_only
_is_audio_only(track_list) ==
    LET types == {track_list[i].type : i \in 1..Len(track_list)} IN
    Cardinality(types) = 1 /\ "audio" \in types

\* _get_disc_type, with _is_multisession(device) as the flag multisession
_get_disc_type(multisession, track_list) ==
    IF "audio" \notin {track_list[i].type : i \in 1..Len(track_list)}
    THEN "UNSUPPORTED"
    ELSE IF ~multisession /\ _is_audio_only(track_list) THEN "AUDIO"
    ELSE IF ~multisession /\ track_list[1].type = "data" THEN "MIXED_MODE"
    ELSE IF multisession /\ track_list[Len(track_list)].type = "data" THEN "ENHANCED"
    ELSE "UNSUPPORTED"

\* the mutant of _get_pregap_track: a pregap only before a first track of audio
_get_pregap_track_AudioOnly(track_list) ==
    LET frames == track_list[1].lba - LEAD_IN_FRAMES IN
    IF frames > 0 /\ track_list[1].type = "audio"
    THEN Track(PREGAP_TRACK_NUM, LEAD_IN_FRAMES, frames, "audio")
    ELSE None

\* _get_pregap_track
_get_pregap_track(track_list) ==
    LET frames == track_list[1].lba - LEAD_IN_FRAMES IN
    IF frames > 0 THEN Track(PREGAP_TRACK_NUM, LEAD_IN_FRAMES, frames, "audio")
    ELSE None

\* the mutant of LastAudio: the first audio track of track_list
LastAudio_First(track_list) ==
    LET audio == {i \in 1..Len(track_list) : track_list[i].type = "audio"} IN
    IF audio = {} THEN 0 ELSE CHOOSE i \in audio : \A j \in audio : i <= j

\* the index of the first audio track met in reversed(track_list), 0 if none
LastAudio(track_list) ==
    LET audio == {i \in 1..Len(track_list) : track_list[i].type = "audio"} IN
    IF audio = {} THEN 0 ELSE CHOOSE i \in audio : \A j \in audio : j <= i

\* _fix_last_audio_track: the track list after the call
_fix_last_audio_track(track_list) ==
    LET k == LastAudio(track_list) IN
    [i \in 1..Len(track_list) |->
        IF i = k
        THEN [track_list[i] EXCEPT !.frames = @ - ENHANCED_CD_DATA_TRACK_GAP]
        ELSE track_list[i]]

\* DiscInfo.audio_tracks
audio_tracks(disc) == SelectSeq(disc.track_list, LAMBDA track : track.type = "audio")

\* DiscInfo.from_cd, on what the drive reports
FromCd ==
    /\ cd_pc = "call"
    /\ cd_pc' = "done"
    /\ IF ~cd.have_disc
       THEN disc_type' = NotYet /\ disc_info' = None
       ELSE LET track_list == cd.track_list
                pregap == _get_pregap_track(track_list)
                type == _get_disc_type(cd.multisession, track_list)
            IN  /\ disc_type' = type
                /\ disc_info' =
                      IF type = "UNSUPPORTED" THEN None
                      ELSE [pregap |-> pregap,
                            track_list |-> IF type = "ENHANCED"
                                           THEN _fix_last_audio_track(track_list)
                                           ELSE track_list,
                            lead_out |-> cd.lead_out,
                            type |-> type]
    /\ UNCHANGED cd
    /\ UNCHANGED <<dvars, fvars, rvars, svars, ovars, xvars>>

\* bounds of the TOCs read
MaxCdTracks == 3

\* track formats as pycdio names them; "XA" stands for those that are neither
TrackTypes == {"audio", "data", "XA"}

\* the length the drive reports for every track of the model's TOCs
CdTrackFrames == 20000

\* the TOC the drive reports for tracks of the given types, starting at lba:
\* tracks numbered from 1, one after the other
CdTracks(types, lba) ==
    [i \in 1..Len(types) |->
        Track(i, lba + (i - 1) * CdTrackFrames, CdTrackFrames, types[i])]

InitCd ==
    /\ \E types \in SeqsUpTo(TrackTypes, MaxCdTracks) \ {<< >>} :
       \E lba \in {LEAD_IN_FRAMES, LEAD_IN_FRAMES + 32} :
       \E multisession \in BOOLEAN :
       \E have_disc \in BOOLEAN :
          cd = [have_disc |-> have_disc,
                multisession |-> multisession,
                track_list |-> CdTracks(types, lba),
                lead_out |-> lba + Len(types) * CdTrackFrames]
    /\ disc_type = NotYet
    /\ disc_info = NotYet
    /\ cd_pc = "call"
    /\ DecoderIdle
    /\ FingerprintIdle
    /\ RipIdle

NextCd == FromCd

SpecCd == InitCd /\ [][NextCd]_vars

---------------------------------------------------------------------------
(* Claims about the disc classification.                                   *)

\* the rules of the claim, in its order, on a sequence of track types
ClaimedDiscType(types, multisession) ==
    LET n == Len(types) IN
    CASE \A i \in 1..n : types[i] # "audio" -> "UNSUPPORTED"
      [] OTHER ->
         CASE ~multisession /\ (\A i \in 1..n : types[i] = "audio") -> "AUDIO"
           [] OTHER ->
              CASE ~multisession /\ types[1] = "data" -> "MIXED_MODE"
                [] OTHER ->
                   CASE multisession /\ types[n] = "data" -> "ENHANCED"
                     [] OTHER -> "UNSUPPORTED"

TypesOf(track_list) == [i \in 1..Len(track_list) |-> track_list[i].type]

\* C10: _get_disc_type is a total function of the track types and the
\* multisession flag that applies the rules in order (no audio track:
\* UNSUPPORTED; single session, all audio: AUDIO; single session, first track
\* data: MIXED_MODE; multisession, last track data: ENHANCED; else
\* UNSUPPORTED), and from_cd returns no DiscInfo when it is UNSUPPORTED.
C10_DiscType ==
    /\ (cd_pc = "done" /\ cd.have_disc) =>
          /\ disc_type = ClaimedDiscType(TypesOf(cd.track_list), cd.multisession)
          /\ disc_type = "UNSUPPORTED" <=> disc_info = None
          /\ disc_info # None => disc_info.type = disc_type
          /\ (~cd.multisession /\ TypesOf(cd.track_list) = <<"audio", "data">>)
                => disc_type = "UNSUPPORTED"
          /\ (cd.multisession /\ TypesOf(cd.track_list) = <<"audio", "audio">>)
                => disc_type = "UNSUPPORTED"
    /\ \A multisession \in BOOLEAN :
           _get_disc_type(multisession, << >>) = "UNSUPPORTED"

\* C10 witness: a single-session disc whose only data track is the last one
\* was found UNSUPPORTED and no DiscInfo was returned
C10_Witness ==
    /\ cd_pc = "done"
    /\ cd.have_disc
    /\ ~cd.multisession
    /\ TypesOf(cd.track_list) = <<"audio", "data">>
    /\ disc_type = "UNSUPPORTED"
    /\ disc_info = None

\* from_cd returned a DiscInfo
GotDiscInfo == cd_pc = "done" /\ cd.have_disc /\ disc_info # None

\* C11: on a TOC classified ENHANCED exactly one track changes: the last track
\* of type audio gets 11400 frames shorter; every other length, every number,
\* LBA and type and the lead out stay as read. On AUDIO and MIXED_MODE discs
\* no length changes.
C11_EnhancedFix ==
    GotDiscInfo =>
        LET old == cd.track_list
            new == disc_info.track_list
            n == Len(old)
        IN  /\ Len(new) = n
            /\ disc_info.lead_out = cd.lead_out
            /\ \A i \in 1..n : /\ new[i].num = old[i].num
                               /\ new[i].lba = old[i].lba
                               /\ new[i].type = old[i].type
            /\ disc_type = "ENHANCED" =>
                  \E k \in 1..n :
                     /\ old[k].type = "audio"
                     /\ \A j \in (k + 1)..n : old[j].type # "audio"
                     /\ new[k].frames = old[k].frames - 11400
                     /\ \A i \in 1..n : i # k => new[i].frames = old[i].frames
            /\ disc_type \in {"AUDIO", "MIXED_MODE"} =>
                  \A i \in 1..n : new[i].frames = old[i].frames

\* C11 witness: an Enhanced CD of two audio tracks and a data track, whose
\* second track got shorter and whose first did not
C11_Witness ==
    /\ GotDiscInfo
    /\ disc_type = "ENHANCED"
    /\ TypesOf(cd.track_list) = <<"audio", "audio", "data">>
    /\ disc_info.track_list[2].frames = cd.track_list[2].frames - 11400
    /\ disc_info.track_list[1].frames = cd.track_list[1].frames

\* C12: whatever the type of the first track, there is a pregap track exactly
\* when the first track's LBA is greater than 150; it starts at LBA 150 and is
\* first.lba - 150 frames long. It is kept apart from the tracks: it is no
\* element of track_list nor of audio_tracks(), whose length is the number of
\* audio tracks of the TOC.
C12_Pregap ==
    GotDiscInfo =>
        LET first == cd.track_list[1]
            pregap == disc_info.pregap
            audio == audio_tracks(disc_info)
        IN  /\ pregap # None <=> first.lba > 150
            /\ pregap # None => /\ pregap.lba = 150
                                /\ pregap.frames = first.lba - 150
            /\ \A i \in 1..Len(disc_info.track_list) :
                   disc_info.track_list[i] # pregap
            /\ \A i \in 1..Len(audio) : audio[i] # pregap
            /\ Len(audio) = Cardinality({i \in 1..Len(cd.track_list) :
                                            cd.track_list[i].type = "audio"})

\* C12 witness: a Mixed Mode CD whose first (data) track starts at LBA 182 has
\* a pregap track of 32 frames, and one audio track
C12_Witness ==
    /\ GotDiscInfo
    /\ disc_type = "MIXED_MODE"
    /\ cd.track_list[1].type = "data"
    /\ cd.track_list[1].lba = 182
    /\ disc_info.pregap # None
    /\ disc_info.pregap.frames = 32
    /\ Len(audio_tracks(disc_info)) = 1

---------------------------------------------------------------------------
(* arver/rip/rip.py: Rip._sanity_check and Rip.verify.                     *)

\* the mutant of TrackNumberMismatch: too many files pass
TrackNumberMismatch_Fewer(num_files, num_tracks) == num_files < num_tracks

\* _sanity_check: if num_files != num_tracks
TrackNumberMismatch(num_files, num_tracks) == num_files # num_tracks

\* the mutant of LengthMismatchFatal: permissive mode is not looked at
LengthMismatchFatal_Always(perm, num_mismatched) == num_mismatched # 0

\* _sanity_check: if not permissive and num_mismatched != 0
LengthMismatchFatal(perm, num_mismatched) == ~perm /\ num_mismatched # 0

Min(a, b) == IF a <= b THEN a ELSE b

\* _sanity_check: the deltas of zip(self.tracks, disc.audio_tracks())
Deltas(rip_tracks, disc) ==
    LET audio == audio_tracks(disc) IN
    [i \in 1..Min(Len(rip_tracks), Len(audio)) |->
        [msg |-> "length", num |-> audio[i].num,
         delta |-> audio[i].frames - rip_tracks[i].cdda_frames]]

\* _sanity_check: whether it raises ValueError, and what it prints
_sanity_check(rip_tracks, disc, perm) ==
    LET num_files == Len(rip_tracks)
        num_tracks == Len(audio_tracks(disc))
        mismatched == SelectSeq(Deltas(rip_tracks, disc), LAMBDA d : d.delta # 0)
    IN  IF TrackNumberMismatch(num_files, num_tracks)
        THEN [raised |-> TRUE,
              messages |-> <<[msg |-> "Track number mismatch"]>> \o
                  (IF num_files = num_tracks + 1 /\ disc.pregap # None
                   THEN <<[msg |-> "Make sure the pregap track is not included."]>>
                   ELSE << >>)]
        ELSE IF LengthMismatchFatal(perm, Len(mismatched))
        THEN [raised |-> TRUE,
              messages |-> mismatched \o <<[msg |-> "Track length mismatch"]>>]
        ELSE [raised |-> FALSE, messages |-> mismatched]

\* verify: self._sanity_check(disc_info, permissive)
SanityCheck ==
    /\ v_pc = "sanity"
    /\ LET check == _sanity_check(rip, vdisc, permissive) IN
          /\ messages' = check.messages
          /\ IF check.raised
             THEN v_pc' = "raised" /\ v_exc' = "ValueError"
             ELSE v_pc' = "table" /\ v_exc' = v_exc
    /\ UNCHANGED <<vdisc, rip, permissive, checksums, results, calls, lookups>>
    /\ UNCHANGED <<dvars, fvars, cvars, svars, ovars, xvars>>

\* verify: checksums = disc_info.accuraterip_data.make_dict()
GetChecksums ==
    /\ v_pc = "table"
    /\ IF vdisc.accuraterip_data = None
       THEN v_pc' = "raised" /\ v_exc' = "ValueError" /\ checksums' = checksums
       ELSE LET made == make_dict(vdisc.accuraterip_data) IN
            IF IsErr(made)
            THEN v_pc' = "raised" /\ v_exc' = made.err /\ checksums' = checksums
            ELSE v_pc' = "loop" /\ v_exc' = v_exc /\ checksums' = made.data
    /\ UNCHANGED <<vdisc, rip, permissive, results, calls, lookups, messages>>
    /\ UNCHANGED <<dvars, fvars, cvars, svars, ovars, xvars>>

\* the mutant of toc_idx_start: Mixed Mode CDs are counted like the others
toc_idx_start_One(mixed_mode) == 1

\* verify: toc_idx_start = 1 if not mixed_mode else 2
toc_idx_start(mixed_mode) == IF ~mixed_mode THEN 1 ELSE 2

\* the mutant of TrackResult: ARv1 is looked up before ARv2
TrackResult_V1First(map, path, ar1, ar2) ==
    IF DOMAIN map = {}
    THEN [path |-> path, checksum |-> ar2, version |-> "ARv2",
          confidence |-> -1, response |-> -1, status |-> "NODATA"]
    ELSE IF ar1 \in DOMAIN map
    THEN [path |-> path, checksum |-> ar1, version |-> "ARv1",
          confidence |-> map[ar1].confidence, response |-> map[ar1].response,
          status |-> "SUCCESS"]
    ELSE IF ar2 \in DOMAIN map
    THEN [path |-> path, checksum |-> ar2, version |-> "ARv2",
          confidence |-> map[ar2].confidence, response |-> map[ar2].response,
          status |-> "SUCCESS"]
    ELSE [path |-> path, checksum |-> ar2, version |-> "ARv2",
          confidence |-> -1, response |-> -1, status |-> "FAILED"]

\* verify: the TrackVerificationResult of one track, given checksums[toc_idx]
TrackResult(map, path, ar1, ar2) ==
    IF DOMAIN map = {}
    THEN [path |-> path, checksum |-> ar2, version |-> "ARv2",
          confidence |-> -1, response |-> -1, status |-> "NODATA"]
    ELSE IF ar2 \in DOMAIN map
    THEN [path |-> path, checksum |-> ar2, version |-> "ARv2",
          confidence |-> map[ar2].confidence, response |-> map[ar2].response,
          status |-> "SUCCESS"]
    ELSE IF ar1 \in DOMAIN map
    THEN [path |-> path, checksum |-> ar1, version |-> "ARv1",
          confidence |-> map[ar1].confidence, response |-> map[ar1].response,
          status |-> "SUCCESS"]
    ELSE [path |-> path, checksum |-> ar2, version |-> "ARv2",
          confidence |-> -1, response |-> -1, status |-> "FAILED"]

\* verify: one iteration of the for loop. get_checksums is the C extension:
\* it gives the checksums of the file, and the call is recorded.
VerifyTrack ==
    /\ v_pc = "loop"
    /\ Len(results) < Len(rip)
    /\ LET mixed_mode == vdisc.type = "MIXED_MODE"
           k == Len(results) + 1
           track == rip[k]
           toc_idx == toc_idx_start(mixed_mode) + k - 1
           rip_idx == IF ~mixed_mode THEN toc_idx ELSE toc_idx - 1
       IN  /\ calls' = Append(calls, [path |-> track.path, track_no |-> rip_idx,
                                      total_tracks |-> Len(rip)])
           /\ lookups' = Append(lookups, toc_idx)
           /\ IF toc_idx \notin DOMAIN checksums
              THEN v_pc' = "raised" /\ v_exc' = "KeyError" /\ results' = results
              ELSE /\ results' = Append(results,
                          TrackResult(checksums[toc_idx], track.path,
                                      track.ar1, track.ar2))
                   /\ UNCHANGED <<v_pc, v_exc>>
    /\ UNCHANGED <<vdisc, rip, permissive, checksums, messages>>
    /\ UNCHANGED <<dvars, fvars, cvars, svars, ovars, xvars>>

\* verify: return DiscVerificationResult(results)
VerifyReturn ==
    /\ v_pc = "loop"
    /\ Len(results) = Len(rip)
    /\ v_pc' = "returned"
    /\ UNCHANGED <<vdisc, rip, permissive, checksums, results, calls, lookups,
                   messages, v_exc>>
    /\ UNCHANGED <<dvars, fvars, cvars, svars, ovars, xvars>>

\* bounds of the discs and rips verified
MaxAudioTracks == 2
MaxDbResponses == 2

\* a checksum no database track carries
SumC == U32(7, 7)            \* 00070007

\* the (ARv1, ARv2) checksums a rip file may have
RipSums == {<<SumA, SumB>>, <<SumB, SumA>>, <<SumC, SumC>>}

\* what fetch_accuraterip_data() leaves in accuraterip_data for a disc of n
\* audio tracks: None, or a disc of Responses that passed _validate_header
VerifyData(n) ==
    {None} \cup
    {[responses |-> r] :
        r \in SeqsUpTo({Resp(Hdr(n, IdA, IdB, IdC), s) :
                           s \in {x \in TrackSamples : x.confidence # 1}},
                       MaxDbResponses)}

\* disc types, each with or without a pregap before the first track
VerifyLayouts ==
    {<<"AUDIO", FALSE>>, <<"AUDIO", TRUE>>, <<"MIXED_MODE", FALSE>>,
     <<"ENHANCED", TRUE>>, <<"DISC_ID", FALSE>>}

\* the DiscInfo of a disc of n audio tracks: as from_cd builds it for the
\* types it reads, as from_disc_id builds it for DISC_ID
VerifyDisc(n, layout, data) ==
    LET type == layout[1]
        types == (IF type = "MIXED_MODE" THEN <<"data">> ELSE << >>) \o
                 [i \in 1..n |-> "audio"] \o
                 (IF type = "ENHANCED" THEN <<"data">> ELSE << >>)
        toc == CdTracks(types, IF layout[2] THEN LEAD_IN_FRAMES + 32
                                            ELSE LEAD_IN_FRAMES)
    IN  [pregap |-> _get_pregap_track(toc),
         track_list |-> IF type = "ENHANCED" THEN _fix_last_audio_track(toc)
                        ELSE toc,
         lead_out |-> LEAD_IN_FRAMES + Len(types) * CdTrackFrames,
         type |-> type,
         accuraterip_data |-> data]

\* AudioFile k of a rip of the disc: as long as audio track k (one CDDA frame
\* longer if k = long), with the checksums sums[k]
RipFile(disc, k, long, sums) ==
    LET audio == audio_tracks(disc)
        frames == IF k <= Len(audio) THEN audio[k].frames ELSE CdTrackFrames
    IN  [path |-> k,
         cdda_frames |-> IF k = long THEN frames + 1 ELSE frames,
         ar1 |-> sums[k][1],
         ar2 |-> sums[k][2]]

InitVerify ==
    /\ \E n \in 1..MaxAudioTracks :
       \E layout \in VerifyLayouts :
       \E data \in VerifyData(n) :
       \E m \in 0..(n + 1) :
       \E sums \in [1..m -> RipSums] :
       \E long \in 0..m :
          /\ m # n => long = 0 /\ sums = [k \in 1..m |-> <<SumA, SumB>>]
          /\ vdisc = VerifyDisc(n, layout, data)
          /\ rip = [k \in 1..m |-> RipFile(VerifyDisc(n, layout, data), k, long, sums)]
    /\ permissive \in BOOLEAN
    /\ checksums = NotYet
    /\ results = << >>
    /\ calls = << >>
    /\ lookups = << >>
    /\ messages = << >>
    /\ v_exc = "none"
    /\ v_pc = "sanity"
    /\ DecoderIdle
    /\ FingerprintIdle
    /\ ClassifierIdle
    /\ VerdictIdle
    /\ OffsetIdle
    /\ XIdle

NextVerify ==
    \/ SanityCheck
    \/ GetChecksums
    \/ VerifyTrack
    \/ VerifyReturn

SpecVerify == InitVerify /\ [][NextVerify]_vars

---------------------------------------------------------------------------
(* Claims about verify().                                                  *)

\* the rip has as many files as the disc has audio tracks
CountsEqual == Len(rip) = Len(audio_tracks(vdisc))

\* file k is as long as audio track k, for every k
LengthsEqual ==
    \A k \in 1..Min(Len(rip), Len(audio_tracks(vdisc))) :
        rip[k].cdda_frames = audio_tracks(vdisc)[k].frames

\* verify() is past its sanity check
Checked == v_pc \notin {"idle", "sanity"}

\* the disc carries AccurateRip data
HasData == vdisc.accuraterip_data # None

\* C13: when the number of rip files differs from the number of audio tracks
\* of the disc, verify() raises ValueError, in permissive mode too, before any
\* checksum is computed and without any per-track result.
C13_TrackCountMismatch ==
    (Checked /\ ~CountsEqual) =>
        /\ v_pc = "raised"
        /\ v_exc = "ValueError"
        /\ calls = << >>
        /\ lookups = << >>
        /\ results = << >>

\* C13 witness: a permissive verify() of a rip with one file more than the
\* disc has audio tracks raised ValueError
C13_Witness ==
    /\ permissive
    /\ Len(rip) = Len(audio_tracks(vdisc)) + 1
    /\ v_pc = "raised"
    /\ v_exc = "ValueError"
    /\ calls = << >>

\* C14: on a disc that carries AccurateRip data, with equal track counts and a
\* file whose length differs from its track's: when not permissive, verify() raises ValueError, computes no
\* checksum and gives no result; when permissive, the difference only gives a
\* message and verification goes on to give a result for every track.
C14_LengthMismatch ==
    (Checked /\ HasData /\ CountsEqual /\ ~LengthsEqual) =>
        IF ~permissive
        THEN /\ v_pc = "raised"
             /\ v_exc = "ValueError"
             /\ calls = << >>
             /\ results = << >>
        ELSE /\ messages # << >>
             /\ v_pc # "raised"
             /\ v_pc = "returned" => Len(results) = Len(rip)

\* C15: on a disc that carries AccurateRip data, with counts and lengths
\* equal to the TOC's, a permissive verify() never raises and returns exactly one result per rip file, in rip order.
C15_PermissiveNeverRaises ==
    (HasData /\ permissive /\ CountsEqual /\ LengthsEqual) =>
        /\ v_pc # "raised"
        /\ v_pc = "returned" =>
              /\ Len(results) = Len(rip)
              /\ \A k \in 1..Len(rip) : results[k].path = rip[k].path

\* C16: rip track k is looked up at index k + 1 of the table on a Mixed Mode
\* CD and at index k on any other disc, and its checksums are computed with
\* track number k of Len(rip) tracks whatever the disc type.
C16_TocIndex ==
    /\ \A k \in 1..Len(lookups) :
          lookups[k] = IF vdisc.type = "MIXED_MODE" THEN k + 1 ELSE k
    /\ \A k \in 1..Len(calls) :
          /\ calls[k].path = rip[k].path
          /\ calls[k].track_no = k
          /\ calls[k].total_tracks = Len(rip)

\* C16 witness: on a Mixed Mode CD of two audio tracks the table was read at
\* 2 and 3, and the checksums were computed for tracks 1 and 2 of 2
C16_Witness ==
    /\ vdisc.type = "MIXED_MODE"
    /\ v_pc = "returned"
    /\ lookups = <<2, 3>>
    /\ calls[1].track_no = 1
    /\ calls[2].track_no = 2
    /\ Len(results) = 2

\* the result the claim's order gives for the map of a track and (v1, v2)
ClaimedResult(map, v1, v2) ==
    CASE v2 \in DOMAIN map ->
            [status |-> "SUCCESS", version |-> "ARv2", checksum |-> v2,
             confidence |-> map[v2].confidence, response |-> map[v2].response]
      [] v2 \notin DOMAIN map /\ v1 \in DOMAIN map ->
            [status |-> "SUCCESS", version |-> "ARv1", checksum |-> v1,
             confidence |-> map[v1].confidence, response |-> map[v1].response]
      [] v2 \notin DOMAIN map /\ v1 \notin DOMAIN map /\ DOMAIN map = {} ->
            [status |-> "NODATA"]
      [] OTHER ->
            [status |-> "FAILED", checksum |-> v2]

\* C17: the result of every track is the one the priority order gives: Success
\* with ARv2 if v2 is a key of the track's map, else Success with ARv1 if v1 is
\* a key, else NoData if the map is empty, else Failed with the local v2; with
\* both keys present it is ARv2 with the confidence and response kept for v2.
C17_Classification ==
    \A k \in 1..Len(results) :
        LET claimed == ClaimedResult(checksums[lookups[k]], rip[k].ar1, rip[k].ar2)
        IN  \A f \in DOMAIN claimed : results[k][f] = claimed[f]

\* C17 witness: a track whose v1 and v2 are both keys of its map was reported
\* as ARv2 with what the table keeps for v2; it differs from what is kept for v1
C17_Witness ==
    \E k \in 1..Len(results) :
        LET map == checksums[lookups[k]] IN
        /\ rip[k].ar1 \in DOMAIN map
        /\ rip[k].ar2 \in DOMAIN map
        /\ map[rip[k].ar1] # map[rip[k].ar2]
        /\ results[k].version = "ARv2"
        /\ results[k].confidence = map[rip[k].ar2].confidence
        /\ results[k].response = map[rip[k].ar2].response

---------------------------------------------------------------------------
(* arver/rip/rip.py: DiscVerificationResult.summary.                       *)

\* len([track for track in self.tracks if track.status == status])
CountStatus(tracks, status) ==
    Len(SelectSeq(tracks, LAMBDA track : track.status = status))

\* the mutant of DiscVerificationResult_summary: all_failed is tested first
DiscVerificationResult_summary_AllFailedFirst(tracks) ==
    LET num_failed == CountStatus(tracks, "FAILED")
        num_nodata == CountStatus(tracks, "NODATA")
    IN  [no_checksum |-> num_nodata,
         text |-> IF num_failed = Len(tracks) - num_nodata THEN "all_failed"
                  ELSE IF num_failed = 0 /\ num_nodata = 0 THEN "all_ok"
                  ELSE IF num_failed = 0 /\ num_nodata # 0 THEN "ok_nodata"
                  ELSE "some_failed"]

\* DiscVerificationResult.summary: the number of tracks the no_checksum line
\* reports (0: no such line) and the class string returned after it
DiscVerificationResult_summary(tracks) ==
    LET num_failed == CountStatus(tracks, "FAILED")
        num_nodata == CountStatus(tracks, "NODATA")
    IN  [no_checksum |-> num_nodata,
         text |-> IF num_failed = 0 /\ num_nodata = 0 THEN "all_ok"
                  ELSE IF num_failed = 0 /\ num_nodata # 0 THEN "ok_nodata"
                  ELSE IF num_failed = Len(tracks) - num_nodata THEN "all_failed"
                  ELSE "some_failed"]

\* a caller takes the summary of a DiscVerificationResult
VerdictSummary ==
    /\ s_pc = "call"
    /\ verdict' = DiscVerificationResult_summary(dvr_tracks)
    /\ s_pc' = "done"
    /\ UNCHANGED dvr_tracks
    /\ UNCHANGED <<dvars, fvars, cvars, rvars, ovars, xvars>>

\* bound of the results summarised
MaxResultTracks == 4

\* _Status
Statuses == {"SUCCESS", "FAILED", "NODATA"}

\* a TrackVerificationResult of file k with the given status, as verify makes it
ResultOf(k, status) ==
    [path |-> k, checksum |-> SumA, version |-> "ARv2",
     confidence |-> IF status = "SUCCESS" THEN 2 ELSE -1,
     response |-> IF status = "SUCCESS" THEN 1 ELSE -1,
     status |-> status]

InitVerdict ==
    /\ \E st \in SeqsUpTo(Statuses, MaxResultTracks) :
          dvr_tracks = [k \in 1..Len(st) |-> ResultOf(k, st[k])]
    /\ verdict = NotYet
    /\ s_pc = "call"
    /\ DecoderIdle
    /\ FingerprintIdle
    /\ ClassifierIdle
    /\ VerifierIdle
    /\ OffsetIdle
    /\ XIdle

NextVerdict == VerdictSummary

SpecVerdict == InitVerdict /\ [][NextVerdict]_vars

---------------------------------------------------------------------------
(* Claims about the summary.                                               *)

\* the category the claim gives to a list of results
ClaimedCategory(tracks) ==
    LET n == Len(tracks)
        NoFailed == \A i \in 1..n : tracks[i].status # "FAILED"
        NoNoData == \A i \in 1..n : tracks[i].status # "NODATA"
    IN  CASE NoFailed /\ NoNoData -> "all_ok"
          [] NoFailed /\ ~NoNoData -> "ok_nodata"
          [] ~NoFailed /\ (\A i \in 1..n : tracks[i].status # "NODATA" =>
                                             tracks[i].status = "FAILED") -> "all_failed"
          [] OTHER -> "some_failed"

\* C18: summary() gives every list of results exactly one category: AllOk if
\* no track is Failed and none is NoData, OkNoData if none is Failed and some
\* is NoData, AllFailed if every track that is not NoData is Failed, SomeFailed
\* otherwise; tracks that are all NoData make OkNoData, not AllFailed.
C18_Summary ==
    s_pc = "done" =>
        /\ verdict.text = ClaimedCategory(dvr_tracks)
        /\ (dvr_tracks # << >> /\
            \A i \in 1..Len(dvr_tracks) : dvr_tracks[i].status = "NODATA")
              => verdict.text = "ok_nodata"

\* C18 witness: three tracks, all NoData, were summarised as OkNoData
C18_Witness ==
    /\ s_pc = "done"
    /\ Len(dvr_tracks) = 3
    /\ \A i \in 1..3 : dvr_tracks[i].status = "NODATA"
    /\ verdict.text = "ok_nodata"

---------------------------------------------------------------------------
(* arver/rip/offset.py: find_pressing_offset, and get_frame450_checksums   *)
(* of arver/audio/checksums.py. A Python dict keeps the order in which its *)
(* keys were first set: it is a sequence of [key, value] with no key twice.*)

Zero == U32(0, 0)

ODKeys(d) == {d[i].key : i \in 1..Len(d)}

\* d[k]
ODGet(d, k) == (CHOOSE i \in 1..Len(d) : d[i].key = k)

\* d[k] = v: a key already there keeps its place
ODPut(d, k, v) ==
    IF k \in ODKeys(d)
    THEN [i \in 1..Len(d) |-> IF d[i].key = k THEN [key |-> k, value |-> v] ELSE d[i]]
    ELSE Append(d, [key |-> k, value |-> v])

RECURSIVE TrackDict450(_, _, _, _)
\* make_dict(frame450=True), for track trk, from response rsp on (0-based):
\* the frame 450 checksum of every Response is a key, whatever its confidence
TrackDict450(disc, trk, rsp, d) ==
    IF rsp = Len(disc.responses) THEN [dict |-> d]
    ELSE LET trks == disc.responses[rsp + 1].tracks IN
         IF trk + 1 > Len(trks) THEN [err |-> "IndexError"]
         ELSE TrackDict450(disc, trk, rsp + 1,
                           ODPut(d, trks[trk + 1].checksum_450,
                                 [confidence |-> trks[trk + 1].confidence,
                                  response |-> rsp + 1]))

RECURSIVE TracksLoop450(_, _, _, _)
TracksLoop450(disc, num_tracks, trk, data) ==
    IF trk = num_tracks THEN [data |-> data]
    ELSE LET inner == TrackDict450(disc, trk, 0, << >>) IN
         IF IsErr(inner) THEN inner
         ELSE TracksLoop450(disc, num_tracks, trk + 1,
                            DictPut(data, trk + 1, inner.dict))

\* make_dict(frame450=True): the table of frame 450 checksums, shaped as the
\* table of make_dict()
make_dict_frame450(disc) ==
    IF Len(disc.responses) = 0 THEN [err |-> "IndexError"]
    ELSE LET num_tracks == disc.responses[1].header.num_tracks
             loop == TracksLoop450(disc, num_tracks, 0, EmptyDict)
         IN  IF IsErr(loop) THEN loop
             ELSE IF num_tracks = 0 THEN [err |-> "UnboundLocalError"]
             ELSE [data |-> DictPut(loop.data, num_tracks + 1, << >>)]

\* get_frame450_checksums: the list of (offset, checksum) pairs of the C
\* extension as a dict checksum -> offset, without the zero checksums; of two
\* pairs with one checksum the later one stays
get_frame450_checksums(raw) ==
    LET keys == {raw[i][2] : i \in 1..Len(raw)} \ {Zero} IN
    [c \in keys |->
        LET last == CHOOSE i \in 1..Len(raw) :
                       /\ raw[i][2] = c
                       /\ \A j \in 1..Len(raw) : raw[j][2] = c => j <= i
        IN  raw[last][1]]

Max(a, b) == IF a >= b THEN a ELSE b

\* the mutant of Vote: a vote counts for two tracks
Vote_Twice(res, off, conf) ==
    LET old == IF off \in ODKeys(res) THEN res[ODGet(res, off)].value
               ELSE [max_conf |-> 0, tracks |-> 0]
    IN  ODPut(res, off, [max_conf |-> Max(old.max_conf, conf), tracks |-> old.tracks + 2])

\* the mutant of Vote: max_conf is the confidence seen last
Vote_LastConf(res, off, conf) ==
    LET old == IF off \in ODKeys(res) THEN res[ODGet(res, off)].value
               ELSE [max_conf |-> 0, tracks |-> 0]
    IN  ODPut(res, off, [max_conf |-> conf, tracks |-> old.tracks + 1])

\* find_pressing_offset: results.setdefault(off, ...), tracks += 1, max_conf
Vote(res, off, conf) ==
    LET old == IF off \in ODKeys(res) THEN res[ODGet(res, off)].value
               ELSE [max_conf |-> 0, tracks |-> 0]
    IN  ODPut(res, off, [max_conf |-> Max(old.max_conf, conf),
                         tracks |-> old.tracks + 1])

RECURSIVE TrackVotes_SkipZeroConf(_, _, _, _)
\* the mutant of TrackVotes: an entry of confidence 0 is passed over
TrackVotes_SkipZeroConf(track_checksums, offsets, i, res) ==
    IF i > Len(track_checksums) THEN res
    ELSE LET checksum == track_checksums[i].key
             meta == track_checksums[i].value
         IN  TrackVotes_SkipZeroConf(track_checksums, offsets, i + 1,
                        IF checksum = Zero \/ meta.confidence = 0 THEN res
                        ELSE IF checksum \notin DOMAIN offsets THEN res
                        ELSE Vote(res, offsets[checksum], meta.confidence))

RECURSIVE TrackVotes(_, _, _, _)
\* find_pressing_offset: the inner loop over track_checksums.items(), from
\* item i on
TrackVotes(track_checksums, offsets, i, res) ==
    IF i > Len(track_checksums) THEN res
    ELSE LET checksum == track_checksums[i].key
             meta == track_checksums[i].value
         IN  TrackVotes(track_checksums, offsets, i + 1,
                        IF checksum = Zero THEN res
                        ELSE IF checksum \notin DOMAIN offsets THEN res
                        ELSE Vote(res, offsets[checksum], meta.confidence))

\* _print_offsets: the rows printed, one per item of the dict in its order
\* (none, and "No pressing offsets found!", for an empty dict)
_print_offsets(offsets) ==
    [i \in 1..Len(offsets) |->
        [offset |-> offsets[i].key, tracks |-> offsets[i].value.tracks,
         max_conf |-> offsets[i].value.max_conf]]

\* find_pressing_offset: up to the loop
OffsetCall ==
    /\ o_pc = "call"
    /\ IF o_disc.accuraterip_data = None
       THEN o_pc' = "raised" /\ o_exc' = "ValueError" /\ o_table' = o_table
       ELSE LET made == make_dict_frame450(o_disc.accuraterip_data) IN
            IF IsErr(made)
            THEN o_pc' = "raised" /\ o_exc' = made.err /\ o_table' = o_table
            ELSE o_pc' = "loop" /\ o_exc' = o_exc /\ o_table' = made.data
    /\ UNCHANGED <<o_disc, o_rip, o_num, o_results, o_output>>
    /\ UNCHANGED <<dvars, fvars, cvars, rvars, svars, xvars>>

\* find_pressing_offset: one iteration of the loop over rip.tracks
OffsetTrack ==
    /\ o_pc = "loop"
    /\ o_num < Len(o_rip)
    /\ LET num == o_num + 1
           offsets == get_frame450_checksums(o_rip[num].f450)
       IN  IF num \notin DOMAIN o_table
           THEN /\ o_pc' = "raised"
                /\ o_exc' = "KeyError"
                /\ UNCHANGED <<o_num, o_results>>
           ELSE /\ o_results' = TrackVotes(o_table[num], offsets, 1, o_results)
                /\ o_num' = num
                /\ UNCHANGED <<o_pc, o_exc>>
    /\ UNCHANGED <<o_disc, o_rip, o_table, o_output>>
    /\ UNCHANGED <<dvars, fvars, cvars, rvars, svars, xvars>>

\* find_pressing_offset: _print_offsets(results)
OffsetPrint ==
    /\ o_pc = "loop"
    /\ o_num = Len(o_rip)
    /\ o_output' = _print_offsets(o_results)
    /\ o_pc' = "printed"
    /\ UNCHANGED <<o_disc, o_rip, o_table, o_num, o_results, o_exc>>
    /\ UNCHANGED <<dvars, fvars, cvars, rvars, svars, xvars>>

\* frame 450 checksums of the test samples
F1 == U32(30778, 30430)      \* 783a76de
F2 == U32(7872, 12552)       \* 1ec03108

\* sample offsets, as in the tests
OffNeg == -196
OffPos == 694

\* what the C extension may give for a file: (offset, checksum) pairs by
\* ascending offset
RawSamples ==
    {<< <<OffNeg, F1>>, <<0, Zero>>, <<OffPos, F2>> >>,
     << <<OffNeg, F2>>, <<0, F1>>, <<OffPos, Zero>> >>,
     << <<OffNeg, F1>>, <<0, F1>>, <<OffPos, Zero>> >>,
     << <<OffNeg, Zero>>, <<0, Zero>>, <<OffPos, Zero>> >>}

\* what the tracks of one Response carry: confidence and frame 450 checksum
F450Samples ==
    {[confidence |-> 5, checksum_450 |-> F1], [confidence |-> 0, checksum_450 |-> F2],
     [confidence |-> 3, checksum_450 |-> F2], [confidence |-> 2, checksum_450 |-> Zero]}

Resp450(h, s) ==
    [header |-> h,
     tracks |-> [j \in 1..h.num_tracks |->
                    [confidence |-> s.confidence, checksum |-> SumA,
                     checksum_450 |-> s.checksum_450]]]

\* what fetch_accuraterip_data() leaves for a disc of n audio tracks
OffsetData(n) ==
    {None} \cup
    {[responses |-> r] :
        r \in SeqsUpTo({Resp450(Hdr(n, IdA, IdB, IdC), s) : s \in F450Samples},
                       MaxDbResponses)}

InitOffset ==
    /\ \E n \in 1..MaxAudioTracks :
       \E data \in OffsetData(n) :
       \E m \in 0..(n + 2) :
       \E raws \in [1..m -> RawSamples] :
          /\ m > n => \A k \in 1..m : raws[k] = << <<OffNeg, F1>>, <<0, Zero>>, <<OffPos, F2>> >>
          /\ o_disc = VerifyDisc(n, <<"AUDIO", FALSE>>, data)
          /\ o_rip = [k \in 1..m |-> [path |-> k, f450 |-> raws[k]]]
    /\ o_table = NotYet
    /\ o_num = 0
    /\ o_results = << >>
    /\ o_output = NotYet
    /\ o_exc = "none"
    /\ o_pc = "call"
    /\ DecoderIdle
    /\ FingerprintIdle
    /\ ClassifierIdle
    /\ VerifierIdle
    /\ VerdictIdle
    /\ XIdle

NextOffset ==
    \/ OffsetCall
    \/ OffsetTrack
    \/ OffsetPrint

SpecOffset == InitOffset /\ [][NextOffset]_vars

---------------------------------------------------------------------------
(* Claims about offset detection.                                          *)

\* the offsets a vote may name
AllOffsets == {OffNeg, 0, OffPos}

\* the pairs (rip track t, frame 450 checksum c the database has for t) with
\* c nonzero and mapped to offset o by the inverted table of t
VotePairs(o) ==
    {p \in (1..Len(o_rip)) \X {Zero, F1, F2} :
        /\ p[1] \in DOMAIN o_table
        /\ p[2] \in ODKeys(o_table[p[1]])
        /\ p[2] # Zero
        /\ \E i \in 1..Len(o_rip[p[1]].f450) :
              /\ o_rip[p[1]].f450[i] = <<o, p[2]>>
              /\ \A j \in (i + 1)..Len(o_rip[p[1]].f450) :
                    o_rip[p[1]].f450[j][2] # p[2]}

\* the confidence the database has for the pair
PairConfidence(p) == o_table[p[1]][ODGet(o_table[p[1]], p[2])].value.confidence

C20_SortedByOffset ==
    o_pc = "printed" =>
        \A i, j \in 1..Len(o_output) :
            i < j => o_output[i].offset < o_output[j].offset

\* the database Tracks of rip track t, one per Response
DbTracks(t) ==
    {o_disc.accuraterip_data.responses[r].tracks[t] :
        r \in {x \in 1..Len(o_disc.accuraterip_data.responses) :
                  t <= Len(o_disc.accuraterip_data.responses[x].tracks)}}

\* the output has a row for the offset
HasRow(o) == \E i \in 1..Len(o_output) : o_output[i].offset = o

---------------------------------------------------------------------------
(* The Rip object (src/arver/rip/rip.py): the constructor, as_table() and  *)
(* the checksums verify() asks for; and accuraterip_checksums() of          *)
(* src/arver/checksum/checksum.py.                                          *)

AUDIO_FRAMES_PER_CD_SECTOR == 588

\* bounds of the rips made and of the calls on them
MaxPaths == 3
MaxRipCalls == 2

\* the files there are: an HTOA, a track that is not a whole number of CD
\* sectors long, a track that cannot be read and a file that is not audio
Files == {"track00.wav", "track01.wav", "track02.flac", "cover.jpg"}

\* _audio.nframes(path): the number of frames, or the exception it raises
get_nframes(path) ==
    CASE path = "cover.jpg" -> [err |-> "TypeError"]
      [] path = "track02.flac" -> [err |-> "OSError"]
      [] path = "track01.wav" -> [n |-> CdTrackFrames * AUDIO_FRAMES_PER_CD_SECTOR + 100]
      [] OTHER -> [n |-> CdTrackFrames * AUDIO_FRAMES_PER_CD_SECTOR]

\* AudioFile.__init__: the AudioFile, or AudioFormatError
AudioFile(path) ==
    LET got == get_nframes(path) IN
    IF IsErr(got)
    THEN [err |-> "AudioFormatError"]
    ELSE [path |-> path,
          _audio_frames |-> got.n,
          cdda_frames |-> got.n \div AUDIO_FRAMES_PER_CD_SECTOR,
          _arv1 |-> None, _arv2 |-> None, _crc32 |-> None]

\* os.path.basename: the files are all given without a directory
basename(path) == path

\* fnmatch(path, pattern), for the patterns of ExcludeSamples
fnmatch(path, pattern) ==
    CASE pattern = "*" -> TRUE
      [] pattern = "*.flac" -> path \in {"track02.flac"}
      [] OTHER -> path = pattern

\* _discard_htoa: the list of common naming patterns
HtoaDefaults ==
    {"track00.wav", "track00.cdda.wav", "track00.flac", "track00.cdda.flac"}

\* _discard_htoa: the paths kept
_discard_htoa(paths, exclude) ==
    LET htoa_patterns ==
            IF exclude = None THEN HtoaDefaults
            ELSE {basename(paths[j]) :
                     j \in {i \in 1..Len(paths) :
                               \E k \in 1..Len(exclude.patterns) :
                                   fnmatch(paths[i], exclude.patterns[k])}}
    IN  SelectSeq(paths, LAMBDA path : basename(path) \notin htoa_patterns)

RECURSIVE LoadTracks(_, _, _)
\* Rip.__init__: the loop that appends AudioFile(path), and goes on to the
\* next path on AudioFormatError
LoadTracks(paths, i, tracks) ==
    IF i > Len(paths) THEN tracks
    ELSE LET file == AudioFile(paths[i]) IN
         LoadTracks(paths, i + 1,
                    IF IsErr(file) THEN tracks ELSE Append(tracks, file))

\* the number of a file among Files, to tell the checksums of files apart
FileNo(path) ==
    CASE path = "track00.wav" -> 1
      [] path = "track01.wav" -> 2
      [] path = "track02.flac" -> 3
      [] OTHER -> 4

\* _audio.checksums(path, track_no, total_tracks) of a file that can be read:
\* the AccurateRip checksums depend on the file and on whether it is the first
\* or the last track, CRC32 on the file alone
get_checksums(path, track_no, total_tracks) ==
    LET place == (IF track_no = 1 THEN 1 ELSE 0) +
                 (IF track_no = total_tracks THEN 2 ELSE 0)
    IN  [ar1 |-> U32(FileNo(path), place),
         ar2 |-> U32(FileNo(path) + 16, place),
         crc32 |-> U32(FileNo(path) + 32, 0)]

\* AudioFile.set_checksums
set_checksums(track, track_no, total_tracks) ==
    LET got == get_checksums(track.path, track_no, total_tracks) IN
    [track EXCEPT !._arv1 = got.ar1, !._arv2 = got.ar2, !._crc32 = got.crc32]

\* the record of one call of the extension for rip track k
Computation(tracks, k) ==
    [track |-> k, path |-> tracks[k].path, track_no |-> k,
     total_tracks |-> Len(tracks)]

\* Rip.__init__
Construct ==
    /\ l_pc = "new"
    /\ l_tracks' = LoadTracks(_discard_htoa(l_paths, l_exclude), 1, << >>)
    /\ l_have_checksums' = FALSE
    /\ l_pc' = "ready"
    /\ UNCHANGED <<l_paths, l_exclude, l_computed, l_reported, l_ncalls>>
    /\ UNCHANGED <<dvars, fvars, cvars, rvars, svars, ovars, hvars, kvars, tvars>>

\* Rip.as_table: _calculate_checksums(), then one row for each track
AsTable ==
    /\ l_pc = "ready"
    /\ l_ncalls < MaxRipCalls
    /\ LET n == Len(l_tracks)
           tracks == IF l_have_checksums THEN l_tracks
                     ELSE [k \in 1..n |-> set_checksums(l_tracks[k], k, n)]
       IN  /\ l_tracks' = tracks
           /\ l_computed' = IF l_have_checksums THEN l_computed
                            ELSE l_computed \o
                                 [k \in 1..n |-> Computation(l_tracks, k)]
           /\ l_reported' = [k \in 1..n |->
                                [path |-> tracks[k].path, ar1 |-> tracks[k]._arv1,
                                 ar2 |-> tracks[k]._arv2,
                                 crc32 |-> tracks[k]._crc32]]
    /\ l_have_checksums' = TRUE
    /\ l_ncalls' = l_ncalls + 1
    /\ UNCHANGED <<l_paths, l_exclude, l_pc>>
    /\ UNCHANGED <<dvars, fvars, cvars, rvars, svars, ovars, hvars, kvars, tvars>>

\* Rip.verify: the number of iterations of its loop that get to
\* get_checksums(): none when the sanity check or the lookup table raises,
\* and no more after the iteration whose checksums[toc_idx] raises KeyError
VerifyIterations(tracks, disc, perm) ==
    IF _sanity_check(tracks, disc, perm).raised THEN 0
    ELSE IF disc.accuraterip_data = None THEN 0
    ELSE LET made == make_dict(disc.accuraterip_data) IN
         IF IsErr(made) THEN 0
         ELSE LET start == toc_idx_start(disc.type = "MIXED_MODE")
                  bad == {k \in 1..Len(tracks) :
                             start + k - 1 \notin DOMAIN made.data}
              IN  IF bad = {} THEN Len(tracks)
                  ELSE CHOOSE k \in bad : \A j \in bad : k <= j

\* what accuraterip_data may be for a disc of n audio tracks
RipData(n) ==
    {None, [responses |-> << >>],
     [responses |-> <<Resp(Hdr(n, IdA, IdB, IdC),
                           [confidence |-> 2, checksum |-> SumA])>>]}

\* the discs a Rip is verified against
RipDiscs ==
    UNION {{VerifyDisc(n, layout, data) :
               layout \in {<<"AUDIO", FALSE>>, <<"MIXED_MODE", FALSE>>},
               data \in RipData(n)} : n \in 1..MaxAudioTracks}

\* Rip.verify, as far as the Rip goes: get_checksums() is called for each
\* track the loop gets to, whatever the tracks have cached, and its CRC32
\* and checksums are printed; nothing of the Rip is assigned
RipVerify ==
    /\ l_pc = "ready"
    /\ l_ncalls < MaxRipCalls
    /\ \E disc \in RipDiscs : \E perm \in BOOLEAN :
          LET n == VerifyIterations(l_tracks, disc, perm) IN
          /\ l_computed' = l_computed \o
                           [k \in 1..n |-> Computation(l_tracks, k)]
          /\ l_reported' = [k \in 1..n |->
                               [path |-> l_tracks[k].path] @@
                               get_checksums(l_tracks[k].path, k, Len(l_tracks))]
    /\ l_ncalls' = l_ncalls + 1
    /\ UNCHANGED <<l_paths, l_exclude, l_tracks, l_have_checksums, l_pc>>
    /\ UNCHANGED <<dvars, fvars, cvars, rvars, svars, ovars, hvars, kvars, tvars>>

\* accuraterip.compute(wav_file, track_no, total_tracks) of checksum.py: the
\* pair of checksums, or None in their place when the file could not be read
accuraterip_compute(wav_file, track_no, total_tracks) ==
    IF IsErr(get_nframes(wav_file)) THEN <<None, None>>
    ELSE LET got == get_checksums(wav_file, track_no, total_tracks)
         IN  <<got.ar1, got.ar2>>

\* accuraterip_checksums of checksum.py
accuraterip_checksums(wav_file, track_no, total_tracks) ==
    LET pair == accuraterip_compute(wav_file, track_no, total_tracks) IN
    IF pair[1] = None \/ pair[2] = None THEN <<Zero, Zero>> ELSE pair

\* a call of accuraterip_checksums on one of the paths given, numbered as
\* it is in the list
AccurateripChecksums ==
    /\ l_pc = "ready"
    /\ l_ncalls < MaxRipCalls
    /\ \E k \in 1..Len(l_paths) :
          LET pair == accuraterip_checksums(l_paths[k], k, Len(l_paths)) IN
          l_reported' = <<[path |-> l_paths[k], ar1 |-> pair[1], ar2 |-> pair[2]]>>
    /\ l_ncalls' = l_ncalls + 1
    /\ UNCHANGED <<l_paths, l_exclude, l_tracks, l_have_checksums, l_computed, l_pc>>
    /\ UNCHANGED <<dvars, fvars, cvars, rvars, svars, ovars, hvars, kvars, tvars>>

\* the values of the argument exclude
ExcludeSamples ==
    {None, [patterns |-> << >>], [patterns |-> <<"*.flac">>],
     [patterns |-> <<"track01.wav">>], [patterns |-> <<"*">>]}

InitRip ==
    /\ l_paths \in SeqsUpTo(Files, MaxPaths)
    /\ l_exclude \in ExcludeSamples
    /\ l_tracks = << >>
    /\ l_have_checksums = FALSE
    /\ l_computed = << >>
    /\ l_reported = << >>
    /\ l_ncalls = 0
    /\ l_pc = "new"
    /\ DecoderIdle
    /\ FingerprintIdle
    /\ ClassifierIdle
    /\ VerifierIdle
    /\ VerdictIdle
    /\ OffsetIdle
    /\ HeaderIdle
    /\ ChecksumIdle
    /\ TocIdle

NextRip ==
    \/ Construct
    \/ AsTable
    \/ RipVerify
    \/ AccurateripChecksums

SpecRip == InitRip /\ [][NextRip]_vars

---------------------------------------------------------------------------
(* Claims about the Rip object and the checksums of its tracks.            *)

\* the computations made so far of the checksums of rip track k
ComputationsOf(k) == {i \in 1..Len(l_computed) : l_computed[i].track = k}

\* C22: over any sequence of as_table() and verify() calls on one Rip, the
\* checksums of each rip track are computed at most once: whatever calls were
\* made, no track has two computations behind it.
C22_ComputeOnce ==
    \A k \in 1..Len(l_tracks) : Cardinality(ComputationsOf(k)) <= 1

\* the path is excluded by pattern: by the default HTOA names when no
\* pattern is given, by the patterns given otherwise
ExcludedByPattern(path) ==
    IF l_exclude = None THEN path \in HtoaDefaults
    ELSE \E k \in 1..Len(l_exclude.patterns) : fnmatch(path, l_exclude.patterns[k])

\* the file cannot be read as supported audio
Unreadable(path) == IsErr(get_nframes(path))

\* the paths of the tracks of the Rip
TrackPaths == [k \in 1..Len(l_tracks) |-> l_tracks[k].path]

\* C23: a file that cannot be read as supported audio is left out of the rip
\* at load time and the run goes on: the tracks are, in order, the given paths
\* that are neither excluded by pattern nor unreadable; and no failed read
\* ends as a zero checksum that is reported.
C23_UnreadableLeftOut ==
    /\ l_pc = "ready" =>
          TrackPaths = SelectSeq(l_paths,
                           LAMBDA path : ~ExcludedByPattern(path) /\ ~Unreadable(path))
    /\ \A i \in 1..Len(l_reported) :
          Unreadable(l_reported[i].path) =>
              ~(l_reported[i].ar1 = Zero /\ l_reported[i].ar2 = Zero)

---------------------------------------------------------------------------
(* The strings of a disc identity: Header.__str__, DiscInfo.accuraterip_id *)
(* and AccurateRipFetcher.from_id. A string is the sequence of its          *)
(* characters.                                                              *)

\* the string of a sequence of characters
RECURSIVE Str(_)
Str(chars) == IF chars = << >> THEN "" ELSE Head(chars) \o Str(Tail(chars))

RECURSIVE DecChars(_)
\* the decimal digits of n >= 0
DecChars(n) ==
    IF n < 10 THEN <<HexDigits[n + 1]>>
    ELSE Append(DecChars(n \div 10), HexDigits[(n % 10) + 1])

RECURSIVE ZeroPad(_, _)
\* zeros are put before the digits until there are w of them
ZeroPad(chars, w) ==
    IF Len(chars) >= w THEN chars ELSE ZeroPad(<<"0">> \o chars, w)

\* f'{n:0wd}'
Fmt_d(n, w) == ZeroPad(DecChars(n), w)

RECURSIVE Fmt_s(_, _)
\* f'{s:ws}': blanks are put after the string until it is w long
Fmt_s(chars, w) ==
    IF Len(chars) >= w THEN chars ELSE Fmt_s(Append(chars, " "), w)

\* f'{v:04x}' of a 16-bit value, f'{x:08x}' of a 32-bit one
HexChars4(v) ==
    <<HexDigits[(v \div 4096) + 1], HexDigits[((v \div 256) % 16) + 1],
      HexDigits[((v \div 16) % 16) + 1], HexDigits[(v % 16) + 1]>>
HexChars8(x) == HexChars4(x.hi) \o HexChars4(x.lo)

\* Header.__str__
Header_str(header) ==
    <<"0">> \o Fmt_d(header.num_tracks, 2) \o <<"-">> \o HexChars8(header.ar_id1)
        \o <<"-">> \o HexChars8(header.ar_id2)
        \o <<"-">> \o HexChars8(header.freedb_id)

\* DiscInfo.accuraterip_id, of num audio tracks and the three ID strings
\* that accuraterip_ids() and freedb_id() gave
accuraterip_id(num, ar1, ar2, freedb) ==
    Fmt_d(num, 3) \o <<"-">> \o Fmt_s(ar1, 8) \o <<"-">> \o Fmt_s(ar2, 8)
        \o <<"-">> \o Fmt_s(freedb, 8)

RECURSIVE Split(_, _, _, _)
\* str.split(sep): the parts so far and the part being read
Split(chars, sep, parts, part) ==
    IF chars = << >> THEN Append(parts, part)
    ELSE IF Head(chars) = sep THEN Split(Tail(chars), sep, Append(parts, part), << >>)
    ELSE Split(Tail(chars), sep, parts, Append(part, Head(chars)))

\* the value of a decimal digit
DigitValue(c) == CHOOSE d \in 0..9 : HexDigits[d + 1] = c

RECURSIVE ParseInt(_, _)
\* int(s) of a string of decimal digits
ParseInt(chars, acc) ==
    IF chars = << >> THEN acc
    ELSE ParseInt(Tail(chars), 10 * acc + DigitValue(Head(chars)))

\* AccurateRipFetcher.from_id
from_id(accuraterip_id_) ==
    LET parts == Split(accuraterip_id_, "-", << >>, << >>) IN
    AccurateRipFetcher(ParseInt(parts[1], 0), Str(parts[2]), Str(parts[3]),
                       Str(parts[4]))

\* str(header)
HeaderStr ==
    /\ h_pc = "call"
    /\ h_str' = Header_str(h_header)
    /\ h_pc' = "str"
    /\ UNCHANGED <<h_header, h_id, h_fetcher>>
    /\ UNCHANGED <<dvars, fvars, cvars, rvars, svars, ovars, lvars, kvars, tvars>>

\* accuraterip_id() of a disc whose number of audio tracks and IDs are those
\* of the header: the IDs come as the strings f'{id:08x}'
AccurateripId ==
    /\ h_pc = "str"
    /\ h_id' = accuraterip_id(h_header.num_tracks, HexChars8(h_header.ar_id1),
                              HexChars8(h_header.ar_id2),
                              HexChars8(h_header.freedb_id))
    /\ h_pc' = "id"
    /\ UNCHANGED <<h_header, h_str, h_fetcher>>
    /\ UNCHANGED <<dvars, fvars, cvars, rvars, svars, ovars, lvars, kvars, tvars>>

\* AccurateRipFetcher.from_id, of either string
FromId ==
    /\ h_pc = "id"
    /\ \E id \in {h_str, h_id} : h_fetcher' = from_id(id)
    /\ h_pc' = "done"
    /\ UNCHANGED <<h_header, h_str, h_id>>
    /\ UNCHANGED <<dvars, fvars, cvars, rvars, svars, ovars, lvars, kvars, tvars>>

\* numbers of tracks a Header may carry (an unsigned byte)
HeaderCounts == {0, 7, 10, 99, 100, 255}

\* the IDs a Header may carry
HeaderIds == {IdA, IdB2, U32(65535, 10)}

HeaderSamples ==
    {Hdr(n, a, b, c) : n \in HeaderCounts, a \in HeaderIds, b \in HeaderIds,
                       c \in HeaderIds}

InitHeader ==
    /\ h_header \in HeaderSamples
    /\ h_str = NotYet
    /\ h_id = NotYet
    /\ h_fetcher = NotYet
    /\ h_pc = "call"
    /\ DecoderIdle
    /\ FingerprintIdle
    /\ ClassifierIdle
    /\ VerifierIdle
    /\ VerdictIdle
    /\ OffsetIdle
    /\ LoadIdle
    /\ ChecksumIdle
    /\ TocIdle

NextHeader ==
    \/ HeaderStr
    \/ AccurateripId
    \/ FromId

SpecHeader == InitHeader /\ [][NextHeader]_vars

---------------------------------------------------------------------------
(* Claims about the identity string.                                       *)

\* the disc-identity format {trackCount:03d}-{id1:08x}-{id2:08x}-{freedbId:08x}
IdentityFormat(header) ==
    Fmt_d(header.num_tracks, 3) \o <<"-">> \o HexChars8(header.ar_id1)
        \o <<"-">> \o HexChars8(header.ar_id2)
        \o <<"-">> \o HexChars8(header.freedb_id)

\* the fetcher accepts exactly the Headers that carry the four values
AcceptsExactly(fetcher, header) ==
    \A other \in HeaderSamples : _validate_header(fetcher, other) <=> other = header

\* C24: the string of every Header (0..255 tracks, three 32-bit IDs) is its
\* identity in the format {trackCount:03d}-{id1:08x}-{id2:08x}-{freedbId:08x},
\* the same string accuraterip_id() builds from these values; and from_id of
\* that string is a fetcher that accepts the Headers of these four values and
\* no other.
C24_IdentityString ==
    /\ h_pc \in {"str", "id", "done"} => h_str = IdentityFormat(h_header)
    /\ h_pc \in {"id", "done"} => h_str = h_id
    /\ h_pc = "done" => AcceptsExactly(h_fetcher, h_header)

---------------------------------------------------------------------------
(* The checksums of one audio file: _audio.checksums(path, track_no,       *)
(* total_tracks), which get_checksums() of src/arver/audio/checksums.py     *)
(* returns unchanged. One pass over the frames of the file gives the two    *)
(* AccurateRip sums and the CRC-32.                                         *)

\* the frames left out at the start of the first track and at the end of the
\* last one
SkipFrames == 2940

\* the mutant of Included: the end of the last track is summed too
Included_FirstOnly(i, n, track_no, total_tracks) ==
    ~(track_no = 1 /\ i <= SkipFrames)

\* frame i (from 1) of a file of n frames is part of the AccurateRip sums
Included(i, n, track_no, total_tracks) ==
    /\ ~(track_no = 1 /\ i <= SkipFrames)
    /\ ~(track_no = total_tracks /\ i > n - SkipFrames)

\* the 32-bit value of frame i of the file (both channels packed): silence, a
\* quiet passage, or a loud one that makes the sums wrap around
value(track, i) ==
    CASE track.content = "silence" -> U32(0, 0)
      [] track.content = "quiet" -> U32(i % 7, (31 * i) % Half)
      [] OTHER -> U32(65535 - (i % 5), 65535 - (i % 3))

\* (a + b) mod 2^32 and (a * k) mod 2^32, as unsigned 32-bit arithmetic does
Add32(a, b) == Mask32(Add(a, b))
Mul32(a, k) == Mask32(Mul(a, k))

\* CRC-32 is kept as a symbol of the bytes it has taken in: those of the
\* frames from..to of the file
Crc32Init == [from |-> 1, to |-> 0]
Crc32Update(crc, i) ==
    IF crc.to < crc.from THEN [from |-> i, to |-> i]
    ELSE IF i = crc.to + 1 THEN [crc EXCEPT !.to = i]
    ELSE [from |-> crc.from, to |-> crc.to, then |-> i]

\* one frame of the pass
ChecksumFrame ==
    /\ k_pc = "loop"
    /\ k_i < k_track.n
    /\ LET i == k_i + 1
           v == value(k_track, i)
           summed == Included(i, k_track.n, k_no, k_total)
       IN  /\ k_i' = i
           /\ k_v1' = IF summed THEN Add32(k_v1, v) ELSE k_v1
           /\ k_v2' = IF summed THEN Add32(k_v2, Mul32(v, i)) ELSE k_v2
           /\ k_crc' = Crc32Update(k_crc, i)
    /\ UNCHANGED <<k_track, k_no, k_total, k_pc>>
    /\ UNCHANGED <<dvars, fvars, cvars, rvars, svars, ovars, lvars, hvars, tvars>>

\* the end of the file: (v1, v2, crc32) is returned
ChecksumReturn ==
    /\ k_pc = "loop"
    /\ k_i = k_track.n
    /\ k_pc' = "done"
    /\ UNCHANGED <<k_track, k_no, k_total, k_i, k_v1, k_v2, k_crc>>
    /\ UNCHANGED <<dvars, fvars, cvars, rvars, svars, ovars, lvars, hvars, tvars>>

\* the lengths of the files: up to the frames left out, a few more, and more
\* than twice as many
ChecksumLengths == {SkipFrames, SkipFrames + 5, 2 * SkipFrames + 5}

ChecksumContents == {"silence", "quiet", "loud"}

\* (track_no, total_tracks): the only track, a first, a last and middle ones
ChecksumPlaces == {<<1, 1>>, <<1, 3>>, <<2, 3>>, <<3, 3>>, <<3, 4>>}

InitChecksum ==
    /\ k_track \in [n : ChecksumLengths, content : ChecksumContents]
    /\ \E place \in ChecksumPlaces : k_no = place[1] /\ k_total = place[2]
    /\ k_i = 0
    /\ k_v1 = U32(0, 0)
    /\ k_v2 = U32(0, 0)
    /\ k_crc = Crc32Init
    /\ k_pc = "loop"
    /\ DecoderIdle
    /\ FingerprintIdle
    /\ ClassifierIdle
    /\ VerifierIdle
    /\ VerdictIdle
    /\ OffsetIdle
    /\ LoadIdle
    /\ HeaderIdle
    /\ TocIdle

NextChecksum ==
    \/ ChecksumFrame
    \/ ChecksumReturn

SpecChecksum == InitChecksum /\ [][NextChecksum]_vars

---------------------------------------------------------------------------
(* Claims about the checksums.                                             *)

RECURSIVE SumV1(_, _, _)
\* the sum of value(i) over lo..hi, mod 2^32
SumV1(track, lo, hi) ==
    IF lo > hi THEN U32(0, 0)
    ELSE IF lo = hi THEN value(track, lo)
    ELSE LET mid == (lo + hi) \div 2
         IN  Add32(SumV1(track, lo, mid), SumV1(track, mid + 1, hi))

RECURSIVE SumV2(_, _, _)
\* the sum of i * value(i) over lo..hi, mod 2^32
SumV2(track, lo, hi) ==
    IF lo > hi THEN U32(0, 0)
    ELSE IF lo = hi THEN Mul32(value(track, lo), lo)
    ELSE LET mid == (lo + hi) \div 2
         IN  Add32(SumV2(track, lo, mid), SumV2(track, mid + 1, hi))

\* the positions the claim includes: 1..n without 1..2940 for the first
\* track and without n-2939..n for the last
ClaimedFirst == IF k_no = 1 THEN 2941 ELSE 1
ClaimedLast == IF k_no = k_total THEN k_track.n - 2940 ELSE k_track.n

\* C25: for a track of n frames at position p of N, v1 is the sum of
\* value(i) and v2 the sum of i * value(i), mod 2^32, over 1..n without
\* 1..2940 when p = 1 and without n-2939..n when p = N; so a track neither
\* first nor last sums every frame whatever p and N, silence gives
\* v1 = v2 = 0 everywhere, and crc32 is that of all the frames whatever
\* (p, N).
C25_Checksums ==
    k_pc = "done" =>
        /\ k_v1 = SumV1(k_track, ClaimedFirst, ClaimedLast)
        /\ k_v2 = SumV2(k_track, ClaimedFirst, ClaimedLast)
        /\ (1 < k_no /\ k_no < k_total) =>
              /\ k_v1 = SumV1(k_track, 1, k_track.n)
              /\ k_v2 = SumV2(k_track, 1, k_track.n)
        /\ k_track.content = "silence" => k_v1 = U32(0, 0) /\ k_v2 = U32(0, 0)
        /\ k_crc = [from |-> 1, to |-> k_track.n]

\* C25 witness: the only track of a disc, loud and longer than the frames
\* left out at both ends, has been summed to something other than zero
C25_Witness ==
    /\ k_pc = "done"
    /\ k_no = 1 /\ k_total = 1
    /\ k_track.content = "loud"
    /\ k_track.n > 2 * SkipFrames
    /\ k_v1 # U32(0, 0)
    /\ k_v1 # SumV1(k_track, 1, k_track.n)

---------------------------------------------------------------------------
(* DiscInfo.from_track_lengths (src/arver/disc/info.py).                   *)

\* bound of the number of track lengths given
MaxTocTracks == 3

RECURSIVE lba_offsets(_, _)
\* from_track_lengths: lba_offsets, of the initial offset and tracks[:-1]
lba_offsets(initial_offset, tracks) ==
    IF Len(tracks) <= 1 THEN <<initial_offset>>
    ELSE LET before == lba_offsets(initial_offset, SubSeq(tracks, 1, Len(tracks) - 1))
         IN  Append(before, tracks[Len(tracks) - 1] + before[Len(before)])

\* the mutant of data_track_offset: the data track follows the audio at once
data_track_offset_NoGap(last_lba, last_frames) == last_lba + last_frames

\* from_track_lengths: data_track_offset
data_track_offset(last_lba, last_frames) ==
    last_lba + last_frames + ENHANCED_CD_DATA_TRACK_GAP

\* DiscInfo.from_track_lengths: the DiscInfo, or the IndexError of tracks[-1]
\* on an empty list
from_track_lengths(tracks, pregap, data) ==
    IF tracks = << >> THEN [err |-> "IndexError"]
    ELSE
    LET pregap_track == IF pregap > 0
                        THEN Track(PREGAP_TRACK_NUM, LEAD_IN_FRAMES, pregap, "audio")
                        ELSE None
        offsets == lba_offsets(LEAD_IN_FRAMES + pregap, tracks)
        last == Len(tracks)
        lead_out == offsets[Len(offsets)] + tracks[last]
        audio == [num \in 1..Min(Len(offsets), Len(tracks)) |->
                     Track(num, offsets[num], tracks[num], "audio")]
    IN  [pregap |-> pregap_track,
         track_list |-> IF data > 0
                        THEN Append(audio,
                                 Track(audio[Len(audio)].num + 1,
                                       data_track_offset(offsets[Len(offsets)], tracks[last]),
                                       data, "data"))
                        ELSE audio,
         lead_out |-> IF data > 0 THEN lead_out + ENHANCED_CD_DATA_TRACK_GAP + data
                      ELSE lead_out,
         type |-> "TRACKS",
         accuraterip_data |-> None]

\* a call of from_track_lengths
FromTrackLengths ==
    /\ t_pc = "call"
    /\ LET disc == from_track_lengths(t_args.tracks, t_args.pregap, t_args.data) IN
          IF IsErr(disc) THEN t_pc' = "raised" /\ t_disc' = t_disc
          ELSE t_pc' = "done" /\ t_disc' = disc
    /\ UNCHANGED t_args
    /\ UNCHANGED <<dvars, fvars, cvars, rvars, svars, ovars, lvars, hvars, kvars>>

\* the arguments: lengths of tests/discinfo_test.py
TocLengths == {75258, 54815, 525}
TocPregaps == {0, 33}
TocData == {0, 52066}

InitToc ==
    /\ t_args \in [tracks : SeqsUpTo(TocLengths, MaxTocTracks),
                   pregap : TocPregaps, data : TocData]
    /\ t_disc = NotYet
    /\ t_pc = "call"
    /\ DecoderIdle
    /\ FingerprintIdle
    /\ ClassifierIdle
    /\ VerifierIdle
    /\ VerdictIdle
    /\ OffsetIdle
    /\ LoadIdle
    /\ HeaderIdle
    /\ ChecksumIdle

NextToc == FromTrackLengths

SpecToc == InitToc /\ [][NextToc]_vars

---------------------------------------------------------------------------
(* Claims about from_track_lengths.                                        *)

\* the end of the last audio track of the disc built
AudioEnd ==
    LET audio == audio_tracks(t_disc) IN
    audio[Len(audio)].lba + audio[Len(audio)].frames

\* C26: from_track_lengths builds a contiguous TOC: audio track i is as long
\* as tracks[i], track 1 starts at 150 + pregap and each next track where the
\* one before ends; the lead out is the end of the last audio track when
\* data = 0, and that end + 11400 + data otherwise, when a data track
\* numbered n + 1 of length data starts at end + 11400; there is a pregap
\* track exactly when pregap > 0; and the disc has len(tracks) audio tracks,
\* the count of its AccurateRip ID.
C26_ContiguousToc ==
    t_pc = "done" =>
        LET tracks == t_args.tracks
            n == Len(tracks)
            list == t_disc.track_list
        IN  /\ Len(audio_tracks(t_disc)) = n
            /\ \A i \in 1..n : list[i] = Track(i, list[i].lba, tracks[i], "audio")
            /\ list[1].lba = 150 + t_args.pregap
            /\ \A i \in 1..(n - 1) : list[i + 1].lba = list[i].lba + list[i].frames
            /\ t_args.data = 0 => Len(list) = n /\ t_disc.lead_out = AudioEnd
            /\ t_args.data # 0 =>
                  /\ Len(list) = n + 1
                  /\ list[n + 1] = Track(n + 1, AudioEnd + 11400, t_args.data, "data")
                  /\ t_disc.lead_out = AudioEnd + 11400 + t_args.data
            /\ (t_disc.pregap # None) <=> (t_args.pregap > 0)
            /\ Fmt_d(Len(audio_tracks(t_disc)), 3) = Fmt_d(n, 3)

\* C26 witness: a disc built of three lengths, a pregap and a data track
C26_Witness ==
    /\ t_pc = "done"
    /\ Len(t_args.tracks) = 3
    /\ t_args.pregap > 0
    /\ t_args.data > 0
    /\ t_disc.pregap # None
    /\ Len(t_disc.track_list) = 4

---------------------------------------------------------------------------
(* Further claims about verify().                                          *)

\* the loop of verify() was entered: the lookup table is there
HasTable == v_pc \in {"loop", "returned"} \/ (v_pc = "raised" /\ v_exc = "KeyError")

\* the number of tracks of the first Response of the disc
TrackCount == vdisc.accuraterip_data.responses[1].header.num_tracks

\* C27: for a rip that passed the sanity check against a disc whose
\* AccurateRip track count is its number of audio tracks, every index verify()
\* looks up is a key of the table (1..trackCount + 1, so no KeyError), index
\* trackCount + 1 is looked up on a Mixed Mode CD only, and there the last rip
\* track finds the empty map at trackCount + 1 and is NODATA.
C27_ExtraTrack ==
    (HasTable /\ TrackCount = Len(audio_tracks(vdisc))) =>
        /\ DOMAIN checksums = 1..(TrackCount + 1)
        /\ v_exc # "KeyError"
        /\ \A k \in 1..Len(lookups) :
              /\ lookups[k] \in DOMAIN checksums
              /\ lookups[k] = TrackCount + 1 => vdisc.type = "MIXED_MODE"
        /\ (vdisc.type = "MIXED_MODE" /\ Len(lookups) = Len(rip)) =>
              /\ lookups[Len(rip)] = TrackCount + 1
              /\ DOMAIN checksums[TrackCount + 1] = {}
              /\ Len(results) = Len(rip)
              /\ results[Len(rip)].status = "NODATA"

\* C27 witness: verify() of two tracks returned on a Mixed Mode CD; the first
\* track was found in the table, the last was looked up at 3 and is NODATA
C27_Witness ==
    /\ vdisc.type = "MIXED_MODE"
    /\ v_pc = "returned"
    /\ TrackCount = 2
    /\ results[1].status = "SUCCESS"
    /\ lookups[2] = 3
    /\ results[2].status = "NODATA"

---------------------------------------------------------------------------
(* Termination of the decoder. _parse_raw_bytes runs on its own: an         *)
(* iteration of its loop that can be taken is taken, and so is its return.  *)
LiveSpec == Spec /\ WF_vars(ParseResponse) /\ WF_vars(ReturnDisc)

RECURSIVE RecordBytes(_)
\* the sum of 13 + 9 * trackCount over the Responses
RecordBytes(rs) ==
    IF rs = << >> THEN 0
    ELSE Header_size + Track_size * Head(rs).header.num_tracks + RecordBytes(Tail(rs))

\* an iteration of the loop raises, or appends one Response and removes its
\* 13 + 9 * trackCount bytes from the front of the buffer; the return leaves
\* the empty buffer as it is
IterationShrinks ==
    pc = "parse" =>
        \/ pc' = "failed"
        \/ pc' = "returned" /\ raw_bytes = << >> /\ raw_bytes' = raw_bytes
        \/ /\ pc' = "parse"
           /\ Len(responses') = Len(responses) + 1
           /\ SubSeq(responses', 1, Len(responses)) = responses
           /\ LET n == responses'[Len(responses')].header.num_tracks IN
                 /\ Len(raw_bytes) >= Header_size + Track_size * n
                 /\ raw_bytes' = SubSeq(raw_bytes, Header_size + Track_size * n + 1,
                                        Len(raw_bytes))
                 /\ Len(raw_bytes') < Len(raw_bytes)

\* C28: decoding terminates on every finite buffer: each iteration of the
\* loop either raises or removes exactly 13 + 9 * trackCount bytes from the
\* front of the buffer, which gets shorter, so the loop ends; and when a disc
\* is returned every byte was consumed and the buffer was as long as the sum
\* of 13 + 9 * trackCount over the Responses returned.
C28_DecodingTerminates ==
    /\ [][IterationShrinks]_vars
    /\ [](pc = "returned" =>
             /\ raw_bytes = << >>
             /\ BufferLen = RecordBytes(returned.responses))
    /\ <>(pc \in {"returned", "failed"})

\* C28 witness: a buffer of two Responses, of two tracks and of one, was
\* decoded to its end: 31 + 22 bytes
C28_Witness ==
    /\ pc = "returned"
    /\ Len(returned.responses) = 2
    /\ returned.responses[1].header.num_tracks = 2
    /\ returned.responses[2].header.num_tracks = 1
    /\ BufferLen = 53

---------------------------------------------------------------------------
(* Further claims about offset detection.                                  *)

C30_ResultsWellFormed ==
    \A k \in 1..Len(results) :
        LET r == results[k]
            map == checksums[lookups[k]]
        IN  /\ r.status \in {"SUCCESS", "FAILED", "NODATA"}
            /\ r.status = "SUCCESS" =>
                  /\ r.confidence >= 1
                  /\ r.response \in 1..Len(vdisc.accuraterip_data.responses)
                  /\ r.checksum \in DOMAIN map
                  /\ \/ r.version = "ARv1" /\ r.checksum = rip[k].ar1
                     \/ r.version = "ARv2" /\ r.checksum = rip[k].ar2
            /\ r.status \in {"FAILED", "NODATA"} =>
                  /\ r.confidence = -1
                  /\ r.response = -1
                  /\ r.version = "ARv2"
                  /\ r.checksum = rip[k].ar2

\* C30 witness: verify() returned a SUCCESS by the v1 checksum, found in the
\* second Response, for the first track and a FAILED for the second
C30_Witness ==
    /\ v_pc = "returned"
    /\ Len(results) = 2
    /\ results[1].status = "SUCCESS"
    /\ results[1].version = "ARv1"
    /\ results[1].response = 2
    /\ rip[1].ar1 # rip[1].ar2
    /\ results[2].status = "FAILED"
====
